---------------------------- MODULE Spec2Model ----------------------------
(***************************************************************************)
(* Model of the word-lock cryptographic operations layer                   *)
(* (src/unnamed/part_004: encryptAES256, decryptAES256, encryptRSA,        *)
(* decryptRSA, hybridEncrypt, hybridDecrypt) and of the LSB steganography  *)
(* codec (src/src/components/layout/CommandPalette.tsx: textToBinary,      *)
(* binaryToText, hideTextInImage, revealTextFromImage).                    *)
(*                                                                         *)
(* A JavaScript string is a sequence of UTF-16 code units (0..65535), a    *)
(* Uint8Array a sequence of bytes (0..255).  The platform calls the code   *)
(* makes are modelled by what they do: TextEncoder/TextDecoder are the     *)
(* WHATWG UTF-8 encoder and decoder, btoa/atob are base64, and the Web     *)
(* Crypto primitives are idealised byte-level functions (see each one).    *)
(* Every function returns a record; a thrown exception is ok = FALSE with  *)
(* the exception's name in error.  The field calls is a ghost: the list of *)
(* platform or module calls the function reached, in order.                *)
(***************************************************************************)
EXTENDS Integers, Sequences, FiniteSets, TLC

VARIABLES
    aesPc,        \* "idle" | "sent" | "done": position of the symmetric scenario
    aesText,      \* text given to encryptAES256
    aesPassword,  \* password given to encryptAES256
    aesSalt,      \* the 16 bytes crypto.getRandomValues supplied as salt
    aesIv,        \* the 12 bytes crypto.getRandomValues supplied as nonce
    aesResult,    \* EncryptionResult returned by encryptAES256
    wire,         \* the base64 blob as handed to decryptAES256
    wireEdit,     \* what happened to the blob in between: none, flip, cut
    decPassword,  \* password given to decryptAES256
    decResult     \* outcome of decryptAES256

VARIABLES
    rsaPc,        \* "idle" | "keys" | "rsaSent" | "rsaDone" | "hybSent" | "hybDone"
    keys,         \* the KeyPairs returned by generateRSAKeyPair
    rsaText,      \* text given to encryptRSA or hybridEncrypt
    rsaKey,       \* which key pair's public key encrypted it
    rsaOut,       \* outcome of encryptRSA
    rsaWire,      \* the ciphertext as handed to decryptRSA, base64
    rsaCause,     \* what was done to it: "none" | "flip" | "cut" | "forged"
    rsaBackKey,   \* which key pair's private key is used to decrypt
    rsaBack,      \* outcome of decryptRSA
    hybOut,       \* outcome of hybridEncrypt
    hybMeta,      \* the metadata as handed to hybridDecrypt
    hybBack       \* outcome of hybridDecrypt

aesVars == <<aesPc, aesText, aesPassword, aesSalt, aesIv, aesResult,
             wire, wireEdit, decPassword, decResult>>

VARIABLES
    stegPc,       \* "idle" | "drawn" | "hidden" | "revealed" | "scanned"
    premultiplied, \* whether this build's canvas keeps premultiplied colours
    canvas,       \* the canvas backing store, 4 samples per pixel
    stegText,     \* text given to hideTextInImage
    dataBefore,   \* imageData.data as hideTextInImage read it
    dataAfter,    \* imageData.data as hideTextInImage handed it to putImageData
    revealed      \* text returned by revealTextFromImage

stegVars == <<stegPc, premultiplied, canvas, stegText, dataBefore, dataAfter, revealed>>

VARIABLES
    uiPc,           \* "start" | "typed" | "hid" | "reloaded" | "ready" | "shown" | "peeked"
    uiPremultiplied, \* whether the browser's canvas keeps premultiplied colours
    originalImage,  \* the uploaded image, or NoImage
    processedImage, \* the image handleHideText produced, or NoImage
    secretText,     \* the text field
    passwordField,  \* the password field
    hidPassword,    \* the password field as handleHideText read it
    revealedText,   \* the revealed-text field
    toast           \* title of the last toast

uiVars == <<uiPc, uiPremultiplied, originalImage, processedImage, secretText,
            passwordField, hidPassword, revealedText, toast>>

VARIABLES
    pwPc,         \* "idle" | "one" | "two"
    pwP,          \* the password of the first call of analyzePasswordStrength
    reportP,      \* what the first call returned
    pwQ,          \* the password of the second call
    reportQ       \* what the second call returned

pwVars == <<pwPc, pwP, reportP, pwQ, reportQ>>

VARIABLES
    macPc,        \* "idle" | "one" | "two" | "panel" | "md5"
    macText,      \* text of the first call of generateHMAC
    macSecret,    \* secret of the first call
    macOut,       \* outcome of the first call
    macText2,     \* text of the second call
    macSecret2,   \* secret of the second call
    macOut2,      \* outcome of the second call
    hashToast,    \* title of the toast of processHash
    hashResult,   \* the hash-result field of the hash panel
    checksum      \* what hashMD5 returned for macText, as digits

macVars == <<macPc, macText, macSecret, macOut, macText2, macSecret2, macOut2,
             hashToast, hashResult, checksum>>

rsaVars == <<rsaPc, keys, rsaText, rsaKey, rsaOut, rsaWire, rsaCause, rsaBackKey,
             rsaBack, hybOut, hybMeta, hybBack>>

VARIABLES
    frames,       \* the calls in progress: for each caller, a frame or NoFrame
    randomLog     \* what the random source has handed out, in order

concVars == <<frames, randomLog>>

VARIABLES
    chaPc,        \* "idle" | "sent" | "done"
    chaText,      \* the text given to encryptChaCha20
    chaPassword,  \* the password given to encryptChaCha20
    chaResult,    \* what encryptChaCha20 returned
    chaPassword2, \* the password given to decryptChaCha20
    chaBack       \* what decryptChaCha20 returned

chaVars == <<chaPc, chaText, chaPassword, chaResult, chaPassword2, chaBack>>

vars == <<aesVars, rsaVars, stegVars, uiVars, pwVars, macVars, concVars, chaVars>>

---------------------------------------------------------------------------
(* Bounds and input alphabets *)

\* longest text given to the ciphers, in code units
MaxTextLen == 2

\* 'a', U+FEFF (byte order mark), and an unpaired high surrogate
TextChars == {97, 65279, 55357}

Texts == UNION {[1..n -> TextChars] : n \in 0..MaxTextLen}

\* "pw", "Pw" (case-flipped), a lone surrogate, U+FFFD
Passwords == {<<112, 119>>, <<80, 119>>, <<55357>>, <<65533>>}

\* the values the random source may supply
RandomBytes(n, seed) == [i \in 1..n |-> (seed * 37 + i * 11) % 256]

Salts == {RandomBytes(16, 1), RandomBytes(16, 2)}

Ivs == {RandomBytes(12, 3), RandomBytes(12, 4)}

\* what is added (mod 256) to a byte that is changed in transit
FlipDeltas == {255}

\* the lengths a blob is cut to: around the salt, nonce and tag boundaries
CutLengths == {0, 1, 15, 16, 27, 28, 43}

\* the texts given to encryptRSA and hybridEncrypt: a short text followed by
\* a run of 'a' that brings its UTF-8 length up to and past the RSA-OAEP
\* ceilings of 190 and 446 bytes
PadLengths == {0, 187, 188, 190, 191, 443, 444, 446, 447}

KeySizes == {2048, 4096}

\* longest text given to hideTextInImage, in code units
MaxStegLen == 2

\* 'a', DEL (seven one bits), U+00FE and U+00FF (the two halves of the end marker), U+0100 (nine bits)
StegChars == {97, 127, 254, 255, 256}

StegTexts == UNION {[1..n -> StegChars] : n \in 0..MaxStegLen}

\* pixels (red, green, blue, alpha) an image is made of: opaque black and
\* white, a half-transparent colour, a transparent pixel
Pixels == {<<0, 0, 0, 255>>, <<255, 255, 255, 255>>, <<254, 253, 7, 128>>, <<1, 1, 1, 0>>}

\* where a band of 15 pixels starts in a banded image, in pixels
BandStarts == {0, 8}

\* images of n pixels: one pixel repeated, two pixels alternating, or a band
\* of 15 pixels of one kind among pixels of another
Images(n) ==
    {[j \in 1..(4 * n) |-> (IF ((j - 1) \div 4) % 2 = 0 THEN p ELSE q)[((j - 1) % 4) + 1]] :
        p \in Pixels, q \in Pixels}
    \cup
    {[j \in 1..(4 * n) |->
        (IF (j - 1) \div 4 >= a /\ (j - 1) \div 4 < a + 15 THEN p ELSE q)[((j - 1) % 4) + 1]] :
        p \in Pixels, q \in Pixels, a \in BandStarts}

\* image sizes in pixels: too small for any text, exactly the bits of a text
\* of each length, and two pixels more than the longest
ImageSizes == {8} \cup {8 * n + 16 : n \in 0..MaxStegLen} \cup {8 * MaxStegLen + 18}

\* longest text typed into the secret-text field, in code units
MaxSecretLen == 2

\* 'a', '|', space, U+00E9
SecretChars == {97, 124, 32, 233}

SecretTexts == UNION {[1..n -> SecretChars] : n \in 0..MaxSecretLen}

\* none, "p", "P", "p|", and one with a code unit btoa rejects
UiPasswords == {<<>>, <<112>>, <<80>>, <<112, 124>>, <<8364>>}

\* pixels that hold the longest payload, base64 of secret + "|" + password
UiPixels == 32 * ((MaxSecretLen + 5) \div 3) + 16

NoImage == [present |-> FALSE, data |-> <<>>]

\* uploaded images: one pixel repeated, 8 times or UiPixels times
UiImages ==
    {[present |-> TRUE, data |-> [j \in 1..(4 * n) |-> p[((j - 1) % 4) + 1]]] :
        p \in Pixels, n \in {8, UiPixels}}

\* lengths of the passwords analysed: around the thresholds 8, 12 and 16
PwLengths == {1, 4, 7, 8, 11, 12, 15, 16, 17}

\* alphabets (lowercase, uppercase, digit, symbol): the first and the last
\* character of each range
PwAlphabets == {<<97, 65, 48, 33>>, <<122, 90, 57, 233>>}

\* the characters next to the ranges: ` @ / : [ {
PwNeighbours == <<96, 64, 47, 58, 91, 123>>

\* the characters of an alphabet at the picked places, in order
Pick(alphabet, picked) ==
    LET places == SelectSeq(<<1, 2, 3, 4>>, LAMBDA k : k \in picked)
    IN  [i \in 1..Len(places) |-> alphabet[places[i]]]

\* the password of length n that cycles through the chosen characters
Cycle(chars, n) == [i \in 1..n |-> chars[((i - 1) % Len(chars)) + 1]]

\* "Tr0ub4dor&3"
Troubador == <<84, 114, 48, 117, 98, 52, 100, 111, 114, 38, 51>>

PwInputs ==
    {Cycle(Pick(alphabet, picked), n) :
        alphabet \in PwAlphabets, picked \in (SUBSET (1..4)) \ {{}}, n \in PwLengths}
    \cup {Cycle(PwNeighbours, n) : n \in PwLengths}
    \cup {<<>>, Troubador}

None == [ok |-> FALSE, error |-> "not called", calls |-> <<>>]

---------------------------------------------------------------------------
(* The concatenation of the sequences pieces[lo], ..., pieces[hi], by      *)
(* halving, so that long texts do not nest deeply.                         *)

RECURSIVE Flatten(_, _, _)
Flatten(pieces, lo, hi) ==
    IF lo > hi THEN <<>>
    ELSE IF lo = hi THEN pieces[lo]
    ELSE LET mid == (lo + hi) \div 2
         IN  Flatten(pieces, lo, mid) \o Flatten(pieces, mid + 1, hi)

---------------------------------------------------------------------------
(* TextEncoder.encode: UTF-16 code units to UTF-8 bytes.  A surrogate pair *)
(* is one code point; an unpaired surrogate is encoded as U+FFFD.          *)

IsHighSurrogate(c) == c >= 55296 /\ c <= 56319

IsLowSurrogate(c) == c >= 56320 /\ c <= 57343

Utf8Bytes(cp) ==
    IF cp < 128 THEN <<cp>>
    ELSE IF cp < 2048 THEN <<192 + (cp \div 64), 128 + (cp % 64)>>
    ELSE IF cp < 65536 THEN
        <<224 + (cp \div 4096), 128 + ((cp \div 64) % 64), 128 + (cp % 64)>>
    ELSE <<240 + (cp \div 262144), 128 + ((cp \div 4096) % 64),
           128 + ((cp \div 64) % 64), 128 + (cp % 64)>>

\* a high surrogate pairs with the low surrogate that follows it
LeadsPair(text, i) ==
    i >= 1 /\ i < Len(text) /\ IsHighSurrogate(text[i]) /\ IsLowSurrogate(text[i + 1])

\* the bytes the code unit at i gives: those of the pair it leads, none when
\* it is the second half of a pair, U+FFFD when it is an unpaired surrogate
EncodeAt(text, i) ==
    IF LeadsPair(text, i)
    THEN Utf8Bytes(65536 + (text[i] - 55296) * 1024 + (text[i + 1] - 56320))
    ELSE IF LeadsPair(text, i - 1) THEN <<>>
    ELSE IF IsHighSurrogate(text[i]) \/ IsLowSurrogate(text[i]) THEN Utf8Bytes(65533)
    ELSE Utf8Bytes(text[i])

TextEncoderEncode(text) ==
    Flatten([i \in 1..Len(text) |-> EncodeAt(text, i)], 1, Len(text))

\* a string without unpaired surrogates: the texts UTF-8 can carry
WellFormed(text) ==
    \A i \in 1..Len(text) :
        /\ IsHighSurrogate(text[i]) => LeadsPair(text, i)
        /\ IsLowSurrogate(text[i]) => LeadsPair(text, i - 1)

(* new TextDecoder().decode: the WHATWG UTF-8 decoder, fatal = false and   *)
(* ignoreBOM = false.  A leading EF BB BF is dropped.  A lead byte takes   *)
(* the continuation bytes that validly follow it; a complete sequence      *)
(* gives its code point, and a truncated sequence or a byte that starts    *)
(* nothing gives U+FFFD.                                                   *)

CodeUnits(cp) ==
    IF cp < 65536 THEN <<cp>>
    ELSE <<55296 + ((cp - 65536) \div 1024), 56320 + ((cp - 65536) % 1024)>>

\* continuation bytes a lead byte needs
BytesNeeded(b) ==
    IF b >= 194 /\ b <= 223 THEN 1
    ELSE IF b >= 224 /\ b <= 239 THEN 2
    ELSE IF b >= 240 /\ b <= 244 THEN 3
    ELSE 0

\* the range of the first continuation byte after lead byte b
LowerBoundary(b) == IF b = 224 THEN 160 ELSE IF b = 240 THEN 144 ELSE 128

UpperBoundary(b) == IF b = 237 THEN 159 ELSE IF b = 244 THEN 143 ELSE 191

InRange(bytes, i, lower, upper) ==
    i <= Len(bytes) /\ bytes[i] >= lower /\ bytes[i] <= upper

\* how many continuation bytes the decoder takes after the byte at i
Taken(bytes, i) ==
    LET need == BytesNeeded(bytes[i]) IN
    IF need >= 1 /\ InRange(bytes, i + 1, LowerBoundary(bytes[i]), UpperBoundary(bytes[i]))
    THEN IF need >= 2 /\ InRange(bytes, i + 2, 128, 191)
         THEN IF need >= 3 /\ InRange(bytes, i + 3, 128, 191) THEN 3 ELSE 2
         ELSE 1
    ELSE 0

\* the byte at i was taken as a continuation byte of an earlier lead byte
TakenByEarlier(bytes, first, i) ==
    \E k \in 1..3 : i - k >= first /\ Taken(bytes, i - k) >= k

DecodeAt(bytes, first, i) ==
    LET b == bytes[i]
        need == BytesNeeded(b)
        cp == IF need = 1 THEN (b % 32) * 64 + (bytes[i + 1] % 64)
              ELSE IF need = 2
              THEN (b % 16) * 4096 + (bytes[i + 1] % 64) * 64 + (bytes[i + 2] % 64)
              ELSE (b % 8) * 262144 + (bytes[i + 1] % 64) * 4096
                       + (bytes[i + 2] % 64) * 64 + (bytes[i + 3] % 64)
    IN  IF TakenByEarlier(bytes, first, i) THEN <<>>
        ELSE IF b <= 127 THEN <<b>>
        ELSE IF need > 0 /\ Taken(bytes, i) = need THEN CodeUnits(cp)
        ELSE <<65533>>

HasBom(bytes) ==
    Len(bytes) >= 3 /\ bytes[1] = 239 /\ bytes[2] = 187 /\ bytes[3] = 191

TextDecoderDecode(bytes) ==
    LET first == IF HasBom(bytes) THEN 4 ELSE 1
    IN  Flatten([i \in first..Len(bytes) |-> DecodeAt(bytes, first, i)], first, Len(bytes))

---------------------------------------------------------------------------
(* Uint8Array.prototype.slice(begin, end): 0-based, end exclusive, both    *)
(* clamped to the array's length.                                          *)

Min(a, b) == IF a < b THEN a ELSE b

Slice(arr, begin, end) ==
    LET from == Min(begin, Len(arr))
        to == Min(end, Len(arr))
    IN  IF from >= to THEN <<>> ELSE SubSeq(arr, from + 1, to)

---------------------------------------------------------------------------
(* btoa / atob.  A base64 text is the sequence of its character codes.     *)

B64Char(v) ==
    IF v < 26 THEN 65 + v
    ELSE IF v < 52 THEN 97 + (v - 26)
    ELSE IF v < 62 THEN 48 + (v - 52)
    ELSE IF v = 62 THEN 43 ELSE 47

B64Index(c) ==
    IF c >= 65 /\ c <= 90 THEN c - 65
    ELSE IF c >= 97 /\ c <= 122 THEN c - 97 + 26
    ELSE IF c >= 48 /\ c <= 57 THEN c - 48 + 52
    ELSE IF c = 43 THEN 62
    ELSE IF c = 47 THEN 63 ELSE -1

\* btoa(String.fromCharCode(...bytes)): every code unit must be below 256
btoaOk(str) == \A i \in 1..Len(str) : str[i] <= 255

btoa(str) ==
    LET n == Len(str)
        byte(j) == IF j <= n THEN str[j] ELSE 0
        sextet(g, r) ==
            IF r = 0 THEN byte(3 * g + 1) \div 4
            ELSE IF r = 1 THEN (byte(3 * g + 1) % 4) * 16 + (byte(3 * g + 2) \div 16)
            ELSE IF r = 2 THEN (byte(3 * g + 2) % 16) * 4 + (byte(3 * g + 3) \div 64)
            ELSE byte(3 * g + 3) % 64
    IN  [k \in 1..(4 * ((n + 2) \div 3)) |->
            LET g == (k - 1) \div 4
                r == (k - 1) % 4
            IN  IF r >= 2 /\ 3 * g + r > n THEN 61 ELSE B64Char(sextet(g, r))]

IsAsciiWhitespace(c) == c \in {9, 10, 12, 13, 32}

\* atob(text).split('').map(c => c.charCodeAt(0)): forgiving-base64 decode
atob(text) ==
    LET nows == SelectSeq(text, LAMBDA c : ~IsAsciiWhitespace(c))
        l == Len(nows)
        pad == IF l % 4 = 0 /\ l >= 2 /\ nows[l] = 61
               THEN (IF nows[l - 1] = 61 THEN 2 ELSE 1)
               ELSE 0
        data == SubSeq(nows, 1, l - pad)
        m == Len(data)
        sx(k) == IF k <= m THEN B64Index(data[k]) ELSE 0
        byte(j) ==
            LET g == (j - 1) \div 3
                r == (j - 1) % 3
            IN  IF r = 0 THEN sx(4 * g + 1) * 4 + (sx(4 * g + 2) \div 16)
                ELSE IF r = 1 THEN (sx(4 * g + 2) % 16) * 16 + (sx(4 * g + 3) \div 4)
                ELSE (sx(4 * g + 3) % 4) * 64 + sx(4 * g + 4)
    IN  IF m % 4 = 1 \/ \E k \in 1..m : B64Index(data[k]) < 0
        THEN [ok |-> FALSE, value |-> <<>>]
        ELSE [ok |-> TRUE, value |-> [j \in 1..((m * 6) \div 8) |-> byte(j)]]

---------------------------------------------------------------------------
(* Web Crypto primitives, idealised.  Hash is a polynomial hash over a     *)
(* prime field: like GHASH, changing one element of its input always       *)
(* changes its value.  PBKDF2 is a deterministic function of (password     *)
(* bytes, salt, iterations); AES-GCM is a stream cipher whose 16-byte tag  *)
(* binds the key, the nonce and the ciphertext.                            *)

\* the largest prime below 2^15
HashPrime == 32768 - 19

RECURSIVE Power(_, _)
Power(x, e) ==
    IF e = 0 THEN 1
    ELSE LET half == Power(x, e \div 2)
         IN  IF e % 2 = 0 THEN (half * half) % HashPrime
             ELSE (((half * half) % HashPrime) * x) % HashPrime

\* sum of (s[i] + 1) * 251^(hi - i) over lo..hi, modulo HashPrime
RECURSIVE HashRange(_, _, _)
HashRange(s, lo, hi) ==
    IF lo > hi THEN 0
    ELSE IF lo = hi THEN s[lo] + 1
    ELSE LET mid == (lo + hi) \div 2
         IN  (HashRange(s, lo, mid) * Power(251, hi - mid) + HashRange(s, mid + 1, hi))
                 % HashPrime

Hash(s) == HashRange(s, 1, Len(s))

\* the hash of s followed by the one element b
HashStep(h, b) == (h * 251 + b + 1) % HashPrime

Bytes2(v) == <<v \div 256, v % 256>>

\* a variant that derives the key from the salt alone
Pbkdf2SaltOnly(keyMaterial, salt, iterations) ==
    HashStep(Hash(salt), iterations % 256)

\* crypto.subtle.deriveKey({name: 'PBKDF2', salt, iterations, hash}, keyMaterial, AES-GCM 256)
Pbkdf2(keyMaterial, salt, iterations) ==
    HashStep(Hash(Bytes2(Hash(keyMaterial)) \o salt), iterations % 256)

GcmStream(key, ivh, i) == (key + ivh + 7 * i) % 256

TagLength == 16

GcmTag(key, ivh, ct) ==
    LET cth == Hash(ct)
    IN  Bytes2(key) \o Bytes2(ivh) \o Bytes2(cth)
            \o [j \in 1..(TagLength - 6) |-> (key + ivh + cth + j) % 256]

\* crypto.subtle.encrypt({name: 'AES-GCM', iv}, key, data): ciphertext followed by the tag
AesGcmEncrypt(key, iv, data) ==
    LET ivh == Hash(iv)
        ct == [i \in 1..Len(data) |-> (data[i] + GcmStream(key, ivh, i)) % 256]
    IN  ct \o GcmTag(key, ivh, ct)

\* crypto.subtle.decrypt({name: 'AES-GCM', iv}, key, encrypted): OperationError
\* when the input is shorter than the tag or the tag does not verify
AesGcmDecrypt(key, iv, encrypted) ==
    LET n == Len(encrypted) - TagLength
        ivh == Hash(iv)
        ct == SubSeq(encrypted, 1, n)
        tag == SubSeq(encrypted, n + 1, Len(encrypted))
    IN  IF n < 0 \/ tag # GcmTag(key, ivh, ct)
        THEN [ok |-> FALSE, value |-> <<>>]
        ELSE [ok |-> TRUE,
              value |-> [i \in 1..n |-> (ct[i] + 256 - GcmStream(key, ivh, i)) % 256]]

---------------------------------------------------------------------------
(* AES-256-GCM with a PBKDF2-derived key *)

SaltLength == 16

IvLength == 12

Iterations == 100000

\* a variant that writes the nonce before the salt
encryptAES256IvFirst(text, password, salt, iv) ==
    LET key == Pbkdf2(TextEncoderEncode(password), salt, Iterations)
        encrypted == AesGcmEncrypt(key, iv, TextEncoderEncode(text))
    IN  [ok |-> TRUE,
         encrypted |-> btoa(iv \o salt \o encrypted),
         salt |-> btoa(salt),
         iv |-> btoa(iv),
         calls |-> <<"getRandomValues", "importKey", "deriveKey",
                     "getRandomValues", "encrypt">>]

\* salt and iv are the two draws from crypto.getRandomValues
encryptAES256(text, password, salt, iv) ==
    LET data == TextEncoderEncode(text)
        keyMaterial == TextEncoderEncode(password)
        key == Pbkdf2(keyMaterial, salt, Iterations)
        encrypted == AesGcmEncrypt(key, iv, data)
        combined == salt \o iv \o encrypted
    IN  [ok |-> TRUE,
         encrypted |-> btoa(combined),
         salt |-> btoa(salt),
         iv |-> btoa(iv),
         calls |-> <<"getRandomValues", "importKey", "deriveKey",
                     "getRandomValues", "encrypt">>]

\* a variant that decrypts in counter mode: the tag is dropped, not verified
decryptAES256Unauthenticated(encryptedData, password) ==
    LET combined == atob(encryptedData).value
        salt == Slice(combined, 0, SaltLength)
        iv == Slice(combined, SaltLength, SaltLength + IvLength)
        encrypted == Slice(combined, SaltLength + IvLength, Len(combined))
        key == Pbkdf2(TextEncoderEncode(password), salt, Iterations)
        n == Len(encrypted) - TagLength
    IN  IF n < 0
        THEN [ok |-> FALSE, error |-> "OperationError",
              calls |-> <<"atob", "importKey", "deriveKey", "decrypt">>,
              salt |-> salt, iv |-> iv, encrypted |-> encrypted]
        ELSE [ok |-> TRUE,
              value |-> TextDecoderDecode(
                  [i \in 1..n |-> (encrypted[i] + 256 - GcmStream(key, Hash(iv), i)) % 256]),
              calls |-> <<"atob", "importKey", "deriveKey", "decrypt">>,
              salt |-> salt, iv |-> iv, encrypted |-> encrypted]

\* The fields salt, iv and encrypted of the outcome are ghosts: the slices
\* the function took from the decoded blob.
decryptAES256(encryptedData, password) ==
    LET decoded == atob(encryptedData)
        combined == decoded.value
        salt == Slice(combined, 0, SaltLength)
        iv == Slice(combined, SaltLength, SaltLength + IvLength)
        encrypted == Slice(combined, SaltLength + IvLength, Len(combined))
        key == Pbkdf2(TextEncoderEncode(password), salt, Iterations)
        decrypted == AesGcmDecrypt(key, iv, encrypted)
    IN  IF ~decoded.ok
        THEN [ok |-> FALSE, error |-> "InvalidCharacterError", calls |-> <<"atob">>]
        ELSE IF ~decrypted.ok
        THEN [ok |-> FALSE, error |-> "OperationError",
              calls |-> <<"atob", "importKey", "deriveKey", "decrypt">>,
              salt |-> salt, iv |-> iv, encrypted |-> encrypted]
        ELSE [ok |-> TRUE, value |-> TextDecoderDecode(decrypted.value),
              calls |-> <<"atob", "importKey", "deriveKey", "decrypt">>,
              salt |-> salt, iv |-> iv, encrypted |-> encrypted]

---------------------------------------------------------------------------
(* RSA-OAEP, idealised.  A key pair is its modulus length and a number n   *)
(* that tells the generated moduli apart.  The exported key is a short     *)
(* byte string carrying both.  Encryption builds the OAEP block            *)
(*   00 || maskedSeed || maskedDB,  DB = lHash || 00.. || 01 || message    *)
(* of exactly the modulus length and applies a permutation that depends on *)
(* n; decryption inverts it and checks the block.                          *)

\* output length of the OAEP hash (SHA-256), in bytes
HLen == 32

Rep(c, n) == [i \in 1..n |-> c]

ExportSpki(keySize, n) == <<48, 1, keySize \div 256, n>>

ExportPkcs8(keySize, n) == <<48, 2, keySize \div 256, n>>

\* crypto.subtle.importKey('spki' | 'pkcs8', buffer, RSA-OAEP): DataError
\* when the buffer is not a key of that format
ImportKey(format, buffer) ==
    IF Len(buffer) = 4 /\ buffer[1] = 48
        /\ buffer[2] = (IF format = "spki" THEN 1 ELSE 2)
        /\ buffer[3] \in {8, 16}
    THEN [ok |-> TRUE, keySize |-> buffer[3] * 256, n |-> buffer[4]]
    ELSE [ok |-> FALSE]

LHash == [i \in 1..HLen |-> (i * 7 + 3) % 256]

Mgf(z, len) == LET h == Hash(z) IN [i \in 1..len |-> (h + 31 * i) % 256]

RsaPermutation(n, i) == (n * 53 + i * 29) % 256

\* the largest message RSA-OAEP takes under a modulus of keySize bits
OaepCeiling(keySize) == keySize \div 8 - 2 * HLen - 2

\* crypto.subtle.encrypt({name: 'RSA-OAEP'}, publicKey, data); seed is the
\* HLen random bytes OAEP draws.  OperationError when data is too long.
RsaOaepEncrypt(key, data, seed) ==
    LET k == key.keySize \div 8
        db == LHash \o Rep(0, OaepCeiling(key.keySize) - Len(data)) \o <<1>> \o data
        dbMask == Mgf(seed, Len(db))
        maskedDb == [i \in 1..Len(db) |-> (db[i] + dbMask[i]) % 256]
        seedMask == Mgf(maskedDb, HLen)
        maskedSeed == [i \in 1..HLen |-> (seed[i] + seedMask[i]) % 256]
        em == <<0>> \o maskedSeed \o maskedDb
    IN  IF Len(data) > OaepCeiling(key.keySize)
        THEN [ok |-> FALSE, value |-> <<>>]
        ELSE [ok |-> TRUE,
              value |-> [i \in 1..k |-> (em[i] + RsaPermutation(key.n, i)) % 256]]

\* the first index in lo..hi where db is not zero, hi + 1 when there is none
RECURSIVE FirstNonZero(_, _, _)
FirstNonZero(db, lo, hi) ==
    IF lo > hi THEN hi + 1
    ELSE IF lo = hi THEN (IF db[lo] # 0 THEN lo ELSE hi + 1)
    ELSE LET mid == (lo + hi) \div 2
             left == FirstNonZero(db, lo, mid)
         IN  IF left <= mid THEN left ELSE FirstNonZero(db, mid + 1, hi)

\* crypto.subtle.decrypt({name: 'RSA-OAEP'}, privateKey, buffer):
\* OperationError unless the buffer decrypts to a well-formed OAEP block
RsaOaepDecrypt(key, buffer) ==
    LET k == key.keySize \div 8
        em == [i \in 1..k |-> (buffer[i] + 256 - RsaPermutation(key.n, i)) % 256]
        maskedSeed == SubSeq(em, 2, HLen + 1)
        maskedDb == SubSeq(em, HLen + 2, k)
        seedMask == Mgf(maskedDb, HLen)
        seed == [i \in 1..HLen |-> (maskedSeed[i] + 256 - seedMask[i]) % 256]
        dbMask == Mgf(seed, Len(maskedDb))
        db == [i \in 1..Len(maskedDb) |-> (maskedDb[i] + 256 - dbMask[i]) % 256]
        one == FirstNonZero(db, HLen + 1, Len(db))
    IN  IF Len(buffer) # k THEN [ok |-> FALSE, value |-> <<>>]
        ELSE IF em[1] # 0 \/ SubSeq(db, 1, HLen) # LHash THEN [ok |-> FALSE, value |-> <<>>]
        ELSE IF one > Len(db) \/ db[one] # 1 THEN [ok |-> FALSE, value |-> <<>>]
        ELSE [ok |-> TRUE, value |-> SubSeq(db, one + 1, Len(db))]

\* blocks that fail one check of OAEP decoding each: a first byte that is
\* not zero, a wrong label hash, no 01 byte before the message
ForgedBlocks == {"first byte", "label hash", "separator"}

\* what anyone holding the public key can compute: the encryption of a
\* block that is not a well-formed OAEP block
ForgeOaep(key, kind, seed) ==
    LET k == key.keySize \div 8
        label == IF kind = "label hash" THEN [i \in 1..HLen |-> 0] ELSE LHash
        db == label \o Rep(0, OaepCeiling(key.keySize) - 1)
                \o (IF kind = "separator" THEN <<0, 0>> ELSE <<1, 97>>)
        dbMask == Mgf(seed, Len(db))
        maskedDb == [i \in 1..Len(db) |-> (db[i] + dbMask[i]) % 256]
        seedMask == Mgf(maskedDb, HLen)
        maskedSeed == [i \in 1..HLen |-> (seed[i] + seedMask[i]) % 256]
        em == (IF kind = "first byte" THEN <<1>> ELSE <<0>>) \o maskedSeed \o maskedDb
    IN  [i \in 1..k |-> (em[i] + RsaPermutation(key.n, i)) % 256]

\* n is the modulus crypto.subtle.generateKey drew, now the clock
generateRSAKeyPair(keySize, n, now) ==
    [publicKey |-> btoa(ExportSpki(keySize, n)),
     privateKey |-> btoa(ExportPkcs8(keySize, n)),
     keySize |-> keySize,
     created |-> now]

encryptRSA(text, publicKeyB64, seed) ==
    LET data == TextEncoderEncode(text)
        publicKeyBuffer == atob(publicKeyB64)
        publicKey == ImportKey("spki", publicKeyBuffer.value)
        encrypted == RsaOaepEncrypt(publicKey, data, seed)
    IN  IF ~publicKeyBuffer.ok
        THEN [ok |-> FALSE, error |-> "InvalidCharacterError", calls |-> <<"atob">>]
        ELSE IF ~publicKey.ok
        THEN [ok |-> FALSE, error |-> "DataError", calls |-> <<"atob", "importKey">>]
        ELSE IF ~encrypted.ok
        THEN [ok |-> FALSE, error |-> "OperationError",
              calls |-> <<"atob", "importKey", "encrypt">>]
        ELSE [ok |-> TRUE, value |-> btoa(encrypted.value),
              calls |-> <<"atob", "importKey", "encrypt">>]

\* a variant that tells a ciphertext of the wrong length from the rest
decryptRSALengthLeak(encryptedData, privateKeyB64) ==
    LET privateKeyBuffer == atob(privateKeyB64)
        privateKey == ImportKey("pkcs8", privateKeyBuffer.value)
        encryptedBuffer == atob(encryptedData)
        decrypted == RsaOaepDecrypt(privateKey, encryptedBuffer.value)
    IN  IF ~privateKeyBuffer.ok
        THEN [ok |-> FALSE, error |-> "InvalidCharacterError", calls |-> <<"atob">>]
        ELSE IF ~privateKey.ok
        THEN [ok |-> FALSE, error |-> "DataError", calls |-> <<"atob", "importKey">>]
        ELSE IF ~encryptedBuffer.ok
        THEN [ok |-> FALSE, error |-> "InvalidCharacterError",
              calls |-> <<"atob", "importKey", "atob">>]
        ELSE IF Len(encryptedBuffer.value) # privateKey.keySize \div 8
        THEN [ok |-> FALSE, error |-> "DataError",
              calls |-> <<"atob", "importKey", "atob", "decrypt">>]
        ELSE IF ~decrypted.ok
        THEN [ok |-> FALSE, error |-> "OperationError",
              calls |-> <<"atob", "importKey", "atob", "decrypt">>]
        ELSE [ok |-> TRUE, value |-> TextDecoderDecode(decrypted.value),
              calls |-> <<"atob", "importKey", "atob", "decrypt">>]

decryptRSA(encryptedData, privateKeyB64) ==
    LET privateKeyBuffer == atob(privateKeyB64)
        privateKey == ImportKey("pkcs8", privateKeyBuffer.value)
        encryptedBuffer == atob(encryptedData)
        decrypted == RsaOaepDecrypt(privateKey, encryptedBuffer.value)
    IN  IF ~privateKeyBuffer.ok
        THEN [ok |-> FALSE, error |-> "InvalidCharacterError", calls |-> <<"atob">>]
        ELSE IF ~privateKey.ok
        THEN [ok |-> FALSE, error |-> "DataError", calls |-> <<"atob", "importKey">>]
        ELSE IF ~encryptedBuffer.ok
        THEN [ok |-> FALSE, error |-> "InvalidCharacterError",
              calls |-> <<"atob", "importKey", "atob">>]
        ELSE IF ~decrypted.ok
        THEN [ok |-> FALSE, error |-> "OperationError",
              calls |-> <<"atob", "importKey", "atob", "decrypt">>]
        ELSE [ok |-> TRUE, value |-> TextDecoderDecode(decrypted.value),
              calls |-> <<"atob", "importKey", "atob", "decrypt">>]

---------------------------------------------------------------------------
(* Hybrid encryption (RSA + AES).  A JavaScript value that may be missing  *)
(* is a record with a type; metadata is undefined or an object.            *)

Undefined == [type |-> "undefined"]

Str(chars) == [type |-> "string", chars |-> chars]

\* metadata?.encryptedKey
OptionalEncryptedKey(metadata) ==
    IF metadata.type = "undefined" THEN Undefined ELSE metadata.encryptedKey

\* !value, for undefined and strings
Falsy(value) == value.type = "undefined" \/ value.chars = <<>>

AesKeyLength == 32

\* a variant that puts the text itself under the public key
hybridEncryptTextUnderRsa(text, publicKeyB64, aesKey, salt, iv, seed) ==
    LET aesKeyB64 == btoa(aesKey)
        aesOut == encryptAES256(text, aesKeyB64, salt, iv)
        encryptedKey == encryptRSA(text, publicKeyB64, seed)
    IN  IF ~encryptedKey.ok
        THEN [ok |-> FALSE, error |-> encryptedKey.error,
              calls |-> <<"encryptAES256", "encryptRSA">>]
        ELSE [ok |-> TRUE,
              encrypted |-> aesOut.encrypted,
              iv |-> aesOut.iv,
              salt |-> aesOut.salt,
              metadata |-> [type |-> "object",
                            encryptedKey |-> Str(encryptedKey.value),
                            algorithm |-> "hybrid"],
              calls |-> <<"encryptAES256", "encryptRSA">>]

\* aesKey, salt, iv and seed are the draws of the random source, in order
hybridEncrypt(text, publicKeyB64, aesKey, salt, iv, seed) ==
    LET aesKeyB64 == btoa(aesKey)
        aesOut == encryptAES256(text, aesKeyB64, salt, iv)
        encryptedKey == encryptRSA(aesKeyB64, publicKeyB64, seed)
    IN  IF ~encryptedKey.ok
        THEN [ok |-> FALSE, error |-> encryptedKey.error,
              calls |-> <<"encryptAES256", "encryptRSA">>]
        ELSE [ok |-> TRUE,
              encrypted |-> aesOut.encrypted,
              iv |-> aesOut.iv,
              salt |-> aesOut.salt,
              metadata |-> [type |-> "object",
                            encryptedKey |-> Str(encryptedKey.value),
                            algorithm |-> "hybrid"],
              calls |-> <<"encryptAES256", "encryptRSA">>]

\* a variant that only checks that metadata is there
hybridDecryptNoKeyCheck(encryptedData, privateKeyB64, metadata) ==
    LET key == OptionalEncryptedKey(metadata)
        aesKey == decryptRSA(IF key.type = "string" THEN key.chars ELSE <<>>,
                             privateKeyB64)
        text == decryptAES256(encryptedData, aesKey.value)
    IN  IF metadata.type = "undefined"
        THEN [ok |-> FALSE, error |-> "Missing encrypted key in metadata", calls |-> <<>>]
        ELSE IF ~aesKey.ok
        THEN [ok |-> FALSE, error |-> aesKey.error, calls |-> <<"decryptRSA">>]
        ELSE IF ~text.ok
        THEN [ok |-> FALSE, error |-> text.error,
              calls |-> <<"decryptRSA", "decryptAES256">>]
        ELSE [ok |-> TRUE, value |-> text.value,
              calls |-> <<"decryptRSA", "decryptAES256">>]

hybridDecrypt(encryptedData, privateKeyB64, metadata) ==
    LET aesKey == decryptRSA(metadata.encryptedKey.chars, privateKeyB64)
        text == decryptAES256(encryptedData, aesKey.value)
    IN  IF Falsy(OptionalEncryptedKey(metadata))
        THEN [ok |-> FALSE, error |-> "Missing encrypted key in metadata", calls |-> <<>>]
        ELSE IF ~aesKey.ok
        THEN [ok |-> FALSE, error |-> aesKey.error, calls |-> <<"decryptRSA">>]
        ELSE IF ~text.ok
        THEN [ok |-> FALSE, error |-> text.error,
              calls |-> <<"decryptRSA", "decryptAES256">>]
        ELSE [ok |-> TRUE, value |-> text.value,
              calls |-> <<"decryptRSA", "decryptAES256">>]

---------------------------------------------------------------------------
(* The cipher functions as the event loop runs them.  A call is a frame:   *)
(* it runs to its next await, and is resumed after the awaited promise has *)
(* settled.  env holds the locals, callee the frame of the async function  *)
(* being awaited, log the calls made and the draws taken from the random   *)
(* source, in order, out the outcome once settled.                         *)

NoFrame == [fn |-> "none", pc |-> "none"]

Call(fn, args) ==
    [fn |-> fn, args |-> args, pc |-> "start", env |-> <<>>, callee |-> NoFrame,
     log |-> <<[kind |-> fn, index |-> 0]>>,
     out |-> None]

\* the k-th output of the random source, by what it is drawn for
DrawLength(kind) ==
    CASE kind = "salt" -> SaltLength
      [] kind = "iv" -> IvLength
      [] kind = "aesKey" -> AesKeyLength
      [] kind = "seed" -> HLen

Draw(kind, k) == RandomBytes(DrawLength(kind), k)

\* the entry of the log for the next draw, source being the draws so far
NextDraw(kind, source) == [kind |-> kind, index |-> Len(source) + 1]

Await(frame, pc, env) == [frame EXCEPT !.pc = pc, !.env = env]

Return(frame, value) ==
    [frame EXCEPT !.pc = "settled", !.out = [ok |-> TRUE, value |-> value]]

Throw(frame, error) ==
    [frame EXCEPT !.pc = "settled", !.out = [ok |-> FALSE, error |-> error]]

\* the last salt of the log of the random source
RECURSIVE LastSalt(_)
LastSalt(source) ==
    IF source = <<>> THEN <<>>
    ELSE IF source[Len(source)].kind = "salt" THEN Draw("salt", Len(source))
    ELSE LastSalt(SubSeq(source, 1, Len(source) - 1))

\* a variant that keeps the salt in one buffer of the module, filled by
\* every call and read at each use
ResumeEncryptAES256SharedSalt(frame, source) ==
    LET a == frame.args
        e == frame.env
    IN  CASE frame.pc = "start" ->
                LET salt == NextDraw("salt", source)
                IN  [Await(frame, "importKey",
                           [data |-> TextEncoderEncode(a.text),
                            salt |-> Draw("salt", salt.index),
                            keyMaterial |-> TextEncoderEncode(a.password)])
                        EXCEPT !.log = Append(@, salt)]
          [] frame.pc = "importKey" ->
                Await(frame, "deriveKey",
                      [key |-> Pbkdf2(e.keyMaterial, LastSalt(source), Iterations)] @@ e)
          [] frame.pc = "deriveKey" ->
                LET iv == NextDraw("iv", source)
                IN  [Await(frame, "encrypt",
                           [iv |-> Draw("iv", iv.index),
                            encrypted |-> AesGcmEncrypt(e.key, Draw("iv", iv.index), e.data)]
                           @@ e)
                        EXCEPT !.log = Append(@, iv)]
          [] frame.pc = "encrypt" ->
                Return(frame, [encrypted |-> btoa(LastSalt(source) \o e.iv \o e.encrypted),
                               salt |-> btoa(LastSalt(source)),
                               iv |-> btoa(e.iv)])

\* a variant that draws once and takes the nonce from the salt
ResumeEncryptAES256NonceFromSalt(frame, source) ==
    LET a == frame.args
        e == frame.env
    IN  CASE frame.pc = "start" ->
                LET salt == NextDraw("salt", source)
                IN  [Await(frame, "importKey",
                           [data |-> TextEncoderEncode(a.text),
                            salt |-> Draw("salt", salt.index),
                            keyMaterial |-> TextEncoderEncode(a.password)])
                        EXCEPT !.log = Append(@, salt)]
          [] frame.pc = "importKey" ->
                Await(frame, "deriveKey",
                      [key |-> Pbkdf2(e.keyMaterial, e.salt, Iterations)] @@ e)
          [] frame.pc = "deriveKey" ->
                LET iv == SubSeq(e.salt, 1, IvLength)
                IN  Await(frame, "encrypt",
                          [iv |-> iv, encrypted |-> AesGcmEncrypt(e.key, iv, e.data)] @@ e)
          [] frame.pc = "encrypt" ->
                Return(frame, [encrypted |-> btoa(e.salt \o e.iv \o e.encrypted),
                               salt |-> btoa(e.salt),
                               iv |-> btoa(e.iv)])

ResumeEncryptAES256(frame, source) ==
    LET a == frame.args
        e == frame.env
    IN  CASE frame.pc = "start" ->
                LET salt == NextDraw("salt", source)
                IN  [Await(frame, "importKey",
                           [data |-> TextEncoderEncode(a.text),
                            salt |-> Draw("salt", salt.index),
                            keyMaterial |-> TextEncoderEncode(a.password)])
                        EXCEPT !.log = Append(@, salt)]
          [] frame.pc = "importKey" ->
                Await(frame, "deriveKey",
                      [key |-> Pbkdf2(e.keyMaterial, e.salt, Iterations)] @@ e)
          [] frame.pc = "deriveKey" ->
                LET iv == NextDraw("iv", source)
                IN  [Await(frame, "encrypt",
                           [iv |-> Draw("iv", iv.index),
                            encrypted |-> AesGcmEncrypt(e.key, Draw("iv", iv.index), e.data)]
                           @@ e)
                        EXCEPT !.log = Append(@, iv)]
          [] frame.pc = "encrypt" ->
                Return(frame, [encrypted |-> btoa(e.salt \o e.iv \o e.encrypted),
                               salt |-> btoa(e.salt),
                               iv |-> btoa(e.iv)])

ResumeDecryptAES256(frame, source) ==
    LET a == frame.args
        e == frame.env
    IN  CASE frame.pc = "start" ->
                LET decoded == atob(a.encryptedData)
                    combined == decoded.value
                IN  IF ~decoded.ok THEN Throw(frame, "InvalidCharacterError")
                    ELSE Await(frame, "importKey",
                               [salt |-> Slice(combined, 0, SaltLength),
                                iv |-> Slice(combined, SaltLength, SaltLength + IvLength),
                                encrypted |-> Slice(combined, SaltLength + IvLength,
                                                    Len(combined)),
                                keyMaterial |-> TextEncoderEncode(a.password)])
          [] frame.pc = "importKey" ->
                Await(frame, "deriveKey",
                      [key |-> Pbkdf2(e.keyMaterial, e.salt, Iterations)] @@ e)
          [] frame.pc = "deriveKey" ->
                Await(frame, "decrypt",
                      [decrypted |-> AesGcmDecrypt(e.key, e.iv, e.encrypted)] @@ e)
          [] frame.pc = "decrypt" ->
                IF ~e.decrypted.ok THEN Throw(frame, "OperationError")
                ELSE Return(frame, TextDecoderDecode(e.decrypted.value))

ResumeEncryptRSA(frame, source) ==
    LET a == frame.args
        e == frame.env
    IN  CASE frame.pc = "start" ->
                LET publicKeyBuffer == atob(a.publicKeyB64)
                IN  IF ~publicKeyBuffer.ok THEN Throw(frame, "InvalidCharacterError")
                    ELSE Await(frame, "importKey",
                               [data |-> TextEncoderEncode(a.text),
                                publicKey |-> ImportKey("spki", publicKeyBuffer.value)])
          [] frame.pc = "importKey" ->
                LET seed == NextDraw("seed", source)
                IN  IF ~e.publicKey.ok THEN Throw(frame, "DataError")
                    ELSE [Await(frame, "encrypt",
                                [encrypted |-> RsaOaepEncrypt(e.publicKey, e.data,
                                                              Draw("seed", seed.index))]
                                @@ e)
                            EXCEPT !.log = Append(@, seed)]
          [] frame.pc = "encrypt" ->
                IF ~e.encrypted.ok THEN Throw(frame, "OperationError")
                ELSE Return(frame, btoa(e.encrypted.value))

ResumeDecryptRSA(frame, source) ==
    LET a == frame.args
        e == frame.env
    IN  CASE frame.pc = "start" ->
                LET privateKeyBuffer == atob(a.privateKeyB64)
                IN  IF ~privateKeyBuffer.ok THEN Throw(frame, "InvalidCharacterError")
                    ELSE Await(frame, "importKey",
                               [privateKey |-> ImportKey("pkcs8", privateKeyBuffer.value)])
          [] frame.pc = "importKey" ->
                LET encryptedBuffer == atob(a.encryptedData)
                IN  IF ~e.privateKey.ok THEN Throw(frame, "DataError")
                    ELSE IF ~encryptedBuffer.ok THEN Throw(frame, "InvalidCharacterError")
                    ELSE Await(frame, "decrypt",
                               [decrypted |-> RsaOaepDecrypt(e.privateKey,
                                                             encryptedBuffer.value)]
                               @@ e)
          [] frame.pc = "decrypt" ->
                IF ~e.decrypted.ok THEN Throw(frame, "OperationError")
                ELSE Return(frame, TextDecoderDecode(e.decrypted.value))

\* the draws of a log, without the marks of calls
DrawsOf(log) == SelectSeq(log, LAMBDA entry : entry.index > 0)

\* the log of a frame with that of the function it awaits
AllLog(frame) ==
    IF frame.fn = "none" THEN <<>>
    ELSE frame.log \o (IF frame.callee.fn = "none" THEN <<>> ELSE frame.callee.log)

\* source with the draws a step added to the log of a frame
Drawn(source, before, after) ==
    source \o SubSeq(DrawsOf(AllLog(after)), Len(DrawsOf(AllLog(before))) + 1,
                     Len(DrawsOf(AllLog(after))))

\* one of the four functions that await crypto.subtle only
ResumeLeaf(frame, source) ==
    CASE frame.fn = "encryptAES256" -> ResumeEncryptAES256(frame, source)
      [] frame.fn = "decryptAES256" -> ResumeDecryptAES256(frame, source)
      [] frame.fn = "encryptRSA" -> ResumeEncryptRSA(frame, source)
      [] frame.fn = "decryptRSA" -> ResumeDecryptRSA(frame, source)

\* the awaited function has settled: its log is kept, its frame dropped
Awaited(frame) ==
    [frame EXCEPT !.log = @ \o frame.callee.log, !.callee = NoFrame]

\* await callee(...): the function called is yet to run to its first await
AwaitCall(frame, pc, env, fn, args) ==
    [Await(frame, pc, env) EXCEPT !.callee = Call(fn, args)]

\* hybridEncrypt and hybridDecrypt, from their start or from the await of a
\* function that has settled, up to the next call
\* a variant that puts the salt, not the key, under the public key
ResumeHybridEncryptWrapsSalt(frame, source) ==
    LET a == frame.args
        e == frame.env
    IN  CASE frame.pc = "start" ->
                LET aesKey == NextDraw("aesKey", source)
                    aesKeyB64 == btoa(Draw("aesKey", aesKey.index))
                IN  AwaitCall([frame EXCEPT !.log = Append(@, aesKey)],
                              "encryptAES256", [aesKeyB64 |-> aesKeyB64],
                              "encryptAES256", [text |-> a.text, password |-> aesKeyB64])
          [] frame.pc = "encryptAES256" ->
                IF ~frame.callee.out.ok THEN Throw(Awaited(frame), frame.callee.out.error)
                ELSE AwaitCall(Awaited(frame),
                               "encryptRSA", [aesResult |-> frame.callee.out.value] @@ e,
                               "encryptRSA",
                               [text |-> frame.callee.out.value.salt,
                                publicKeyB64 |-> a.publicKeyB64])
          [] frame.pc = "encryptRSA" ->
                IF ~frame.callee.out.ok THEN Throw(Awaited(frame), frame.callee.out.error)
                ELSE Return(Awaited(frame),
                            [encrypted |-> e.aesResult.encrypted,
                             iv |-> e.aesResult.iv,
                             salt |-> e.aesResult.salt,
                             metadata |-> [type |-> "object",
                                           encryptedKey |-> Str(frame.callee.out.value),
                                           algorithm |-> "hybrid"]])

ResumeHybridEncrypt(frame, source) ==
    LET a == frame.args
        e == frame.env
    IN  CASE frame.pc = "start" ->
                LET aesKey == NextDraw("aesKey", source)
                    aesKeyB64 == btoa(Draw("aesKey", aesKey.index))
                IN  AwaitCall([frame EXCEPT !.log = Append(@, aesKey)],
                              "encryptAES256", [aesKeyB64 |-> aesKeyB64],
                              "encryptAES256", [text |-> a.text, password |-> aesKeyB64])
          [] frame.pc = "encryptAES256" ->
                IF ~frame.callee.out.ok THEN Throw(Awaited(frame), frame.callee.out.error)
                ELSE AwaitCall(Awaited(frame),
                               "encryptRSA", [aesResult |-> frame.callee.out.value] @@ e,
                               "encryptRSA",
                               [text |-> e.aesKeyB64, publicKeyB64 |-> a.publicKeyB64])
          [] frame.pc = "encryptRSA" ->
                IF ~frame.callee.out.ok THEN Throw(Awaited(frame), frame.callee.out.error)
                ELSE Return(Awaited(frame),
                            [encrypted |-> e.aesResult.encrypted,
                             iv |-> e.aesResult.iv,
                             salt |-> e.aesResult.salt,
                             metadata |-> [type |-> "object",
                                           encryptedKey |-> Str(frame.callee.out.value),
                                           algorithm |-> "hybrid"]])

\* a variant that goes on to decryptAES256 whatever decryptRSA did
ResumeHybridDecryptGoesOn(frame, source) ==
    LET a == frame.args
        e == frame.env
    IN  CASE frame.pc = "start" ->
                IF Falsy(OptionalEncryptedKey(a.metadata))
                THEN Throw(frame, "Missing encrypted key in metadata")
                ELSE AwaitCall(frame, "decryptRSA", e, "decryptRSA",
                               [encryptedData |-> a.metadata.encryptedKey.chars,
                                privateKeyB64 |-> a.privateKeyB64])
          [] frame.pc = "decryptRSA" ->
                LET aesKey == IF frame.callee.out.ok THEN frame.callee.out.value ELSE <<>>
                IN  AwaitCall(Awaited(frame), "decryptAES256",
                              [aesKey |-> aesKey], "decryptAES256",
                              [encryptedData |-> a.encryptedData, password |-> aesKey])
          [] frame.pc = "decryptAES256" ->
                [Awaited(frame) EXCEPT !.pc = "settled", !.out = frame.callee.out]

ResumeHybridDecrypt(frame, source) ==
    LET a == frame.args
        e == frame.env
    IN  CASE frame.pc = "start" ->
                IF Falsy(OptionalEncryptedKey(a.metadata))
                THEN Throw(frame, "Missing encrypted key in metadata")
                ELSE AwaitCall(frame, "decryptRSA", e, "decryptRSA",
                               [encryptedData |-> a.metadata.encryptedKey.chars,
                                privateKeyB64 |-> a.privateKeyB64])
          [] frame.pc = "decryptRSA" ->
                IF ~frame.callee.out.ok THEN Throw(Awaited(frame), frame.callee.out.error)
                ELSE AwaitCall(Awaited(frame), "decryptAES256",
                               [aesKey |-> frame.callee.out.value], "decryptAES256",
                               [encryptedData |-> a.encryptedData,
                                password |-> frame.callee.out.value])
          [] frame.pc = "decryptAES256" ->
                [Awaited(frame) EXCEPT !.pc = "settled", !.out = frame.callee.out]

\* one turn of the event loop for a call: from where it stands to its next
\* await, or to its end.  A function called by hybridEncrypt or
\* hybridDecrypt runs to its first await in the turn that calls it, and is
\* resumed in turns of its own after that.
Resume(frame, source) ==
    LET hybrid == frame.fn \in {"hybridEncrypt", "hybridDecrypt"}
        own == IF ~hybrid \/ (frame.pc # "start" /\ frame.callee.pc # "settled")
               THEN frame
               ELSE IF frame.fn = "hybridEncrypt" THEN ResumeHybridEncrypt(frame, source)
               ELSE ResumeHybridDecrypt(frame, source)
        callee == ResumeLeaf(IF hybrid THEN own.callee ELSE frame,
                             Drawn(source, frame, own))
    IN  IF ~hybrid THEN callee
        ELSE IF own.pc = "settled" THEN own
        ELSE [own EXCEPT !.callee = callee]

---------------------------------------------------------------------------
(* encryptChaCha20 and decryptChaCha20: AES-GCM under a key that is the    *)
(* password itself, padded                                                 *)

\* password.padEnd(32, '0')
PadEnd(str, width) ==
    IF Len(str) >= width THEN str ELSE str \o [i \in 1..(width - Len(str)) |-> 48]

\* crypto.subtle.importKey('raw', keyData, {name: 'AES-GCM'}, ...): DataError
\* unless the key data is 128, 192 or 256 bits long
ImportRawKey(keyData) ==
    IF Len(keyData) \in {16, 24, 32}
    THEN [ok |-> TRUE, raw |-> keyData, key |-> Hash(keyData)]
    ELSE [ok |-> FALSE, raw |-> keyData, key |-> 0]

\* salt and iv are the two draws from crypto.getRandomValues
encryptChaCha20(text, password, salt, iv) ==
    LET data == TextEncoderEncode(text)
        key == ImportRawKey(TextEncoderEncode(PadEnd(password, 32)))
        encrypted == AesGcmEncrypt(key.key, iv, data)
    IN  IF ~key.ok
        THEN [ok |-> FALSE, error |-> "DataError"]
        ELSE [ok |-> TRUE,
              encrypted |-> btoa(encrypted),
              iv |-> btoa(iv),
              salt |-> btoa(salt)]

\* salt is a parameter the function does not read
decryptChaCha20(encryptedData, password, iv, salt) ==
    LET key == ImportRawKey(TextEncoderEncode(PadEnd(password, 32)))
        ivArray == atob(iv)
        encryptedArray == atob(encryptedData)
        decrypted == AesGcmDecrypt(key.key, ivArray.value, encryptedArray.value)
    IN  IF ~key.ok THEN [ok |-> FALSE, error |-> "DataError"]
        ELSE IF ~ivArray.ok \/ ~encryptedArray.ok
        THEN [ok |-> FALSE, error |-> "InvalidCharacterError"]
        ELSE IF ~decrypted.ok THEN [ok |-> FALSE, error |-> "OperationError"]
        ELSE [ok |-> TRUE, value |-> TextDecoderDecode(decrypted.value)]

---------------------------------------------------------------------------
(* LSB steganography.  A binary string is a sequence of the digits 0 and   *)
(* 1.  The canvas keeps its pixels either as given or with the colours     *)
(* premultiplied by alpha, in which case what getImageData returns for a   *)
(* pixel that is not opaque may differ from what putImageData was given.   *)

\* n.toString(2)
RECURSIVE ToBinary(_)
ToBinary(n) == IF n < 2 THEN <<n>> ELSE Append(ToBinary(n \div 2), n % 2)

\* str.padStart(width, '0')
PadStart(str, width) ==
    IF Len(str) >= width THEN str ELSE [i \in 1..(width - Len(str)) |-> 0] \o str

\* parseInt(str, 2)
RECURSIVE ParseBinary(_)
ParseBinary(str) ==
    IF str = <<>> THEN 0
    ELSE 2 * ParseBinary(SubSeq(str, 1, Len(str) - 1)) + str[Len(str)]

EndMarker == <<1, 1, 1, 1, 1, 1, 1, 1, 1, 1, 1, 1, 1, 1, 1, 0>>

textToBinary(text) ==
    Flatten([i \in 1..Len(text) |-> PadStart(ToBinary(text[i]), 8)], 1, Len(text))
        \o EndMarker

\* binary.indexOf(pattern), 0-based, -1 when the pattern does not occur
IndexOf(binary, pattern) ==
    LET at(i) == SubSeq(binary, i + 1, i + Len(pattern)) = pattern
        places == {i \in 0..(Len(binary) - Len(pattern)) : at(i)}
    IN  IF places = {} THEN -1 ELSE CHOOSE i \in places : \A j \in places : i <= j

\* a variant that decodes the whole string when there is no end marker
binaryToTextNoMarkerCheck(binary) ==
    LET endIndex == IndexOf(binary, EndMarker)
        textBinary == IF endIndex = -1 THEN binary ELSE SubSeq(binary, 1, endIndex)
    IN  [k \in 1..(Len(textBinary) \div 8) |->
            ParseBinary(SubSeq(textBinary, (8 * k) - 7, 8 * k))]

\* a group of fewer than 8 digits at the end is dropped
binaryToText(binary) ==
    LET endIndex == IndexOf(binary, EndMarker)
        textBinary == SubSeq(binary, 1, endIndex)
    IN  IF endIndex = -1 THEN <<>>
        ELSE [k \in 1..(Len(textBinary) \div 8) |->
                 ParseBinary(SubSeq(textBinary, 8 * k - 7, 8 * k))]

Alpha(data, j) == data[(4 * ((j - 1) \div 4)) + 4]

\* ctx.putImageData(imageData, 0, 0) (and ctx.drawImage): what the canvas keeps
PutImageData(premult, data) ==
    IF ~premult THEN data
    ELSE [j \in 1..Len(data) |->
             IF j % 4 = 0 THEN data[j]
             ELSE (data[j] * Alpha(data, j) + 127) \div 255]

\* ctx.getImageData(0, 0, width, height).data
GetImageData(premult, store) ==
    IF ~premult THEN store
    ELSE [j \in 1..Len(store) |->
             IF j % 4 = 0 THEN store[j]
             ELSE IF Alpha(store, j) = 0 THEN 0
             ELSE Min(255, (store[j] * 255 + (Alpha(store, j) \div 2)) \div Alpha(store, j))]

\* a variant of the loop that ORs the bit in without clearing the old one
EmbedBitsNoClear(data, binary) ==
    [j \in 1..Len(data) |->
        IF (j - 1) % 4 = 0 /\ (j - 1) \div 4 < Len(binary)
        THEN IF binary[((j - 1) \div 4) + 1] = 1 /\ data[j] % 2 = 0
             THEN data[j] + 1 ELSE data[j]
        ELSE data[j]]

\* a variant of the loop that writes nothing unless every bit has a sample
EmbedBitsAllOrNothing(data, binary) ==
    IF (Len(data) + 3) \div 4 < Len(binary) THEN data
    ELSE [j \in 1..Len(data) |->
            IF (j - 1) % 4 = 0 /\ (j - 1) \div 4 < Len(binary)
            THEN (data[j] - (data[j] % 2)) + binary[((j - 1) \div 4) + 1]
            ELSE data[j]]

\* the loop of hideTextInImage: sample i = 0, 4, 8, ... takes bit i / 4 while
\* there are samples and bits; (data[i] & 0xFE) | bit
EmbedBits(data, binary) ==
    [j \in 1..Len(data) |->
        IF (j - 1) % 4 = 0 /\ (j - 1) \div 4 < Len(binary)
        THEN (data[j] - (data[j] % 2)) + binary[((j - 1) \div 4) + 1]
        ELSE data[j]]

\* the outcome is the data as read, the data as written, and the canvas
hideTextInImage(premult, store, text) ==
    LET data == GetImageData(premult, store)
        written == EmbedBits(data, textToBinary(text))
    IN  [before |-> data, after |-> written, canvas |-> PutImageData(premult, written)]

\* the loop of revealTextFromImage: the low bit of every fourth sample
ExtractBits(data) == [k \in 1..((Len(data) + 3) \div 4) |-> data[(4 * k) - 3] % 2]

revealTextFromImage(premult, store) ==
    binaryToText(ExtractBits(GetImageData(premult, store)))

---------------------------------------------------------------------------
(* The steganography panel: handleHideText and handleRevealText.  An image *)
(* is its RGBA samples; a toast is its title.                              *)

\* characters String.prototype.trim removes
JsWhiteSpace == {9, 10, 11, 12, 13, 32, 160, 5760, 8232, 8233, 8239, 8287, 12288, 65279}
                    \cup (8192..8202)

\* str.trim() is the empty string
TrimIsEmpty(str) == \A i \in 1..Len(str) : str[i] \in JsWhiteSpace

\* str.split(sep) for a one-character separator
Split(str, sep) ==
    LET at == {i \in 1..Len(str) : str[i] = sep}
        cut(k) == IF k = 0 THEN 0
                  ELSE IF k > Cardinality(at) THEN Len(str) + 1
                  ELSE CHOOSE i \in at : Cardinality({j \in at : j < i}) = k - 1
    IN  [k \in 1..(Cardinality(at) + 1) |-> SubSeq(str, cut(k - 1) + 1, cut(k) - 1)]

\* the payload handleHideText hands to hideTextInImage
TextToHide(secret, pass) ==
    IF pass # <<>> THEN btoa(secret \o <<124>> \o pass) ELSE secret

\* canvas.toBlob(..., 'image/png'): the samples of the canvas as an image
ToBlob(premult, store) == [present |-> TRUE, data |-> GetImageData(premult, store)]

handleHideText(premult, image, secret, pass) ==
    IF ~image.present \/ TrimIsEmpty(secret)
    THEN [toast |-> "Missing Data", processedImage |-> NoImage]
    ELSE IF pass # <<>> /\ ~btoaOk(secret \o <<124>> \o pass)
    THEN [toast |-> "Processing Failed", processedImage |-> NoImage]
    ELSE LET drawn == PutImageData(premult, image.data)
             after == hideTextInImage(premult, drawn, TextToHide(secret, pass)).canvas
         IN  [toast |-> "Text Hidden Successfully",
              processedImage |-> ToBlob(premult, after)]

\* shown is the revealed-text field before the call
handleRevealText(premult, image, pass, shown) ==
    IF ~image.present THEN [toast |-> "No Image", revealedText |-> shown]
    ELSE LET hiddenText == revealTextFromImage(premult, PutImageData(premult, image.data))
             decoded == atob(hiddenText)
             parts == Split(decoded.value, 124)
         IN  IF hiddenText = <<>>
             THEN [toast |-> "No Hidden Text", revealedText |-> <<>>]
             ELSE IF pass = <<>>
             THEN [toast |-> "Text Revealed", revealedText |-> hiddenText]
             ELSE IF ~decoded.ok
             THEN [toast |-> "Text Revealed", revealedText |-> hiddenText]
             ELSE IF Len(parts) = 2 /\ parts[2] = pass
             THEN [toast |-> "Text Revealed", revealedText |-> parts[1]]
             ELSE [toast |-> "Wrong Password", revealedText |-> <<>>]

---------------------------------------------------------------------------
(* analyzePasswordStrength.  A number is a record: NaN, or a value in      *)
(* thousandths.                                                            *)

HasLower(password) == \E i \in 1..Len(password) : password[i] \in 97..122

HasUpper(password) == \E i \in 1..Len(password) : password[i] \in 65..90

HasDigit(password) == \E i \in 1..Len(password) : password[i] \in 48..57

\* /[^A-Za-z0-9]/
HasSymbol(password) ==
    \E i \in 1..Len(password) :
        password[i] \notin (97..122) \cup (65..90) \cup (48..57)

\* a variant without the point for 16 characters
ScoreNoSixteen(password) ==
    (IF Len(password) >= 8 THEN 1 ELSE 0) + (IF Len(password) >= 12 THEN 1 ELSE 0)
    + (IF HasLower(password) THEN 1 ELSE 0) + (IF HasUpper(password) THEN 1 ELSE 0)
    + (IF HasDigit(password) THEN 1 ELSE 0) + (IF HasSymbol(password) THEN 1 ELSE 0)

Score(password) ==
    (IF Len(password) >= 8 THEN 1 ELSE 0) + (IF Len(password) >= 12 THEN 1 ELSE 0)
    + (IF Len(password) >= 16 THEN 1 ELSE 0)
    + (IF HasLower(password) THEN 1 ELSE 0) + (IF HasUpper(password) THEN 1 ELSE 0)
    + (IF HasDigit(password) THEN 1 ELSE 0) + (IF HasSymbol(password) THEN 1 ELSE 0)

\* a variant without the entry for short passwords
FeedbackNoLength(password) ==
    (IF HasLower(password) THEN <<>> ELSE <<"Include lowercase letters">>)
    \o (IF HasUpper(password) THEN <<>> ELSE <<"Include uppercase letters">>)
    \o (IF HasDigit(password) THEN <<>> ELSE <<"Include numbers">>)
    \o (IF HasSymbol(password) THEN <<>> ELSE <<"Include special characters">>)

Feedback(password) ==
    (IF Len(password) >= 8 THEN <<>> ELSE <<"Use at least 8 characters">>)
    \o (IF HasLower(password) THEN <<>> ELSE <<"Include lowercase letters">>)
    \o (IF HasUpper(password) THEN <<>> ELSE <<"Include uppercase letters">>)
    \o (IF HasDigit(password) THEN <<>> ELSE <<"Include numbers">>)
    \o (IF HasSymbol(password) THEN <<>> ELSE <<"Include special characters">>)

CharSetSize(password) ==
    (IF HasLower(password) THEN 26 ELSE 0) + (IF HasUpper(password) THEN 26 ELSE 0)
    + (IF HasDigit(password) THEN 10 ELSE 0) + (IF HasSymbol(password) THEN 32 ELSE 0)

NaN == [kind |-> "NaN", milli |-> 0]

Number(milli) == [kind |-> "number", milli |-> milli]

\* 1000 * Math.log2(n), rounded, for the sizes CharSetSize can have but 0
Log2Milli(n) ==
    CASE n = 10 -> 3322 [] n = 26 -> 4700 [] n = 32 -> 5000 [] n = 36 -> 5170
      [] n = 42 -> 5392 [] n = 52 -> 5700 [] n = 58 -> 5858 [] n = 62 -> 5954
      [] n = 68 -> 6087 [] n = 84 -> 6392 [] n = 94 -> 6555

\* password.length * Math.log2(charSetSize); Math.log2(0) is -Infinity and
\* 0 * -Infinity is NaN
Entropy(password) ==
    IF CharSetSize(password) = 0
    THEN NaN
    ELSE Number(Len(password) * Log2Milli(CharSetSize(password)))

\* x >= y on numbers: false when either is NaN
GreaterOrEqual(x, y) == x.kind = "number" /\ y.kind = "number" /\ x.milli >= y.milli

\* a variant in which 4 points are good already
StrengthGoodFromFour(score) ==
    IF score <= 2 THEN "weak"
    ELSE IF score <= 3 THEN "fair"
    ELSE IF score <= 5 THEN "good"
    ELSE IF score <= 6 THEN "strong"
    ELSE "excellent"

Strength(score) ==
    IF score <= 2 THEN "weak"
    ELSE IF score <= 4 THEN "fair"
    ELSE IF score <= 5 THEN "good"
    ELSE IF score <= 6 THEN "strong"
    ELSE "excellent"

analyzePasswordStrength(password) ==
    [score |-> Score(password),
     strength |-> Strength(Score(password)),
     entropy |-> Entropy(password),
     feedback |-> Feedback(password)]

---------------------------------------------------------------------------
(* hashMD5.  A 32-bit integer is kept as two 16-bit halves, hi and lo; it  *)
(* is negative when hi is 32768 or more.  A string of digits is the        *)
(* sequence of the digits' values.                                         *)

\* the 32-bit integer with the same low 32 bits as hi * 65536 + lo
ToInt32(hi, lo) ==
    [hi |-> (hi + (lo \div 65536)) % 65536, lo |-> lo % 65536]

\* hash << 5
ShiftLeft5(h) == ToInt32(32 * h.hi, 32 * h.lo)

\* Math.abs(hash), a value from 0 to 2^31, again as two halves
MathAbs(h) ==
    IF h.hi < 32768 THEN h
    ELSE ToInt32(65535 - h.hi, 65536 - h.lo)

\* n.toString(radix) for 0 <= n < 65536, without leading zeros
RECURSIVE Digits(_, _)
Digits(n, radix) ==
    IF n < radix THEN <<n>> ELSE Append(Digits(n \div radix, radix), n % radix)

\* v.toString(16) for a value of two halves
ToString16(v) ==
    IF v.hi = 0 THEN Digits(v.lo, 16)
    ELSE Digits(v.hi, 16) \o PadStart(Digits(v.lo, 16), 4)

\* the loop of hashMD5 up to code unit i
RECURSIVE RollingHash(_, _)
RollingHash(text, i) ==
    IF i = 0 THEN [hi |-> 0, lo |-> 0]
    ELSE LET hash == RollingHash(text, i - 1)
             shifted == ShiftLeft5(hash)
         IN  ToInt32(shifted.hi - hash.hi, (shifted.lo - hash.lo) + text[i])

hashMD5(text) ==
    IF Len(text) = 0 THEN Digits(0, 10)
    ELSE PadStart(ToString16(MathAbs(RollingHash(text, Len(text)))), 8)

---------------------------------------------------------------------------
(* generateHMAC, and the HMAC branch of processHash of the hash panel.     *)
(* HMAC is idealised like the other primitives: a deterministic function   *)
(* of the key bytes and the message bytes.                                 *)

HexDigit(v) == IF v < 10 THEN 48 + v ELSE 87 + v

\* hashArray.map(b => b.toString(16).padStart(2, '0')).join('')
ToHex(bytes) ==
    Flatten([i \in 1..Len(bytes) |-> <<HexDigit(bytes[i] \div 16), HexDigit(bytes[i] % 16)>>],
            1, Len(bytes))

\* crypto.subtle.sign('HMAC', key, messageData): 32 bytes
HmacSha256(keyData, messageData) ==
    LET h == Hash(Bytes2(Hash(keyData)) \o <<Len(keyData) % 256>> \o messageData)
    IN  Bytes2(h) \o [j \in 1..(HLen - 2) |-> ((h * j) + j) % 256]

\* a variant whose importKey accepts an empty key
generateHMACEmptyKey(text, secret) ==
    [ok |-> TRUE,
     value |-> ToHex(HmacSha256(TextEncoderEncode(secret), TextEncoderEncode(text))),
     calls |-> <<"importKey", "sign">>]

\* importKey('raw', keyData, HMAC) throws a DataError for key data of length 0
generateHMAC(text, secret) ==
    LET keyData == TextEncoderEncode(secret)
        messageData == TextEncoderEncode(text)
    IN  IF Len(keyData) = 0
        THEN [ok |-> FALSE, error |-> "DataError", calls |-> <<"importKey">>]
        ELSE [ok |-> TRUE,
              value |-> ToHex(HmacSha256(keyData, messageData)),
              calls |-> <<"importKey", "sign">>]

\* processHash with selectedAlgorithm = 'hmac'; shown is the hash-result
\* field before the call
processHash(inputText, hmacSecret, shown) ==
    IF TrimIsEmpty(inputText) THEN [toast |-> "Input Required", hashResult |-> shown]
    ELSE IF TrimIsEmpty(hmacSecret) THEN [toast |-> "Secret Required", hashResult |-> shown]
    ELSE LET result == generateHMAC(inputText, hmacSecret)
         IN  IF result.ok
             THEN [toast |-> "Hash Generated", hashResult |-> result.value]
             ELSE [toast |-> "Hash Generation Failed", hashResult |-> shown]

---------------------------------------------------------------------------
(* Symmetric scenario: one encryptAES256 call, the blob possibly altered   *)
(* on its way, one decryptAES256 call.                                     *)

AesInit ==
    /\ aesPc = "idle"
    /\ aesText = <<>>
    /\ aesPassword = <<>>
    /\ aesSalt = <<>>
    /\ aesIv = <<>>
    /\ aesResult = None
    /\ wire = <<>>
    /\ wireEdit = [kind |-> "none", pos |-> 0]
    /\ decPassword = <<>>
    /\ decResult = None

Encrypt ==
    /\ aesPc = "idle"
    /\ \E t \in Texts, p \in Passwords, s \in Salts, n \in Ivs :
        /\ aesText' = t
        /\ aesPassword' = p
        /\ aesSalt' = s
        /\ aesIv' = n
        /\ aesResult' = encryptAES256(t, p, s, n)
        /\ wire' = encryptAES256(t, p, s, n).encrypted
    /\ aesPc' = "sent"
    /\ UNCHANGED <<wireEdit, decPassword, decResult>>
    /\ UNCHANGED <<rsaVars, stegVars, uiVars, pwVars, macVars, concVars, chaVars>>

\* one byte of the decoded blob is replaced by another value
FlipByte ==
    /\ aesPc = "sent"
    /\ wireEdit.kind = "none"
    /\ LET blob == atob(wire).value IN
        \E pos \in 1..Len(blob), delta \in FlipDeltas :
            /\ wire' = btoa([blob EXCEPT ![pos] = (@ + delta) % 256])
            /\ wireEdit' = [kind |-> "flip", pos |-> pos]
    /\ UNCHANGED <<aesPc, aesText, aesPassword, aesSalt, aesIv, aesResult,
                   decPassword, decResult>>
    /\ UNCHANGED <<rsaVars, stegVars, uiVars, pwVars, macVars, concVars, chaVars>>

\* the decoded blob is cut to its first n bytes
CutBlob ==
    /\ aesPc = "sent"
    /\ wireEdit.kind = "none"
    /\ LET blob == atob(wire).value IN
        \E n \in CutLengths \cap 0..(Len(blob) - 1) :
            /\ wire' = btoa(SubSeq(blob, 1, n))
            /\ wireEdit' = [kind |-> "cut", pos |-> n]
    /\ UNCHANGED <<aesPc, aesText, aesPassword, aesSalt, aesIv, aesResult,
                   decPassword, decResult>>
    /\ UNCHANGED <<rsaVars, stegVars, uiVars, pwVars, macVars, concVars, chaVars>>

Decrypt ==
    /\ aesPc = "sent"
    /\ \E p \in Passwords :
        /\ decPassword' = p
        /\ decResult' = decryptAES256(wire, p)
    /\ aesPc' = "done"
    /\ UNCHANGED <<aesText, aesPassword, aesSalt, aesIv, aesResult, wire, wireEdit>>
    /\ UNCHANGED <<rsaVars, stegVars, uiVars, pwVars, macVars, concVars, chaVars>>

AesNext == Encrypt \/ FlipByte \/ CutBlob \/ Decrypt

---------------------------------------------------------------------------
(* Public-key scenario: two key pairs are generated; a text is encrypted   *)
(* with encryptRSA or hybridEncrypt under one public key and decrypted     *)
(* with either private key; the hybrid metadata may lose its key on the    *)
(* way.                                                                    *)

RsaTexts == {t \o Rep(97, n) : t \in Texts, n \in PadLengths}

\* hybridEncrypt is tried on the short texts and on texts past both ceilings
HybridTexts == {t \o Rep(97, n) : t \in Texts, n \in {0, 447}}

Seeds == {RandomBytes(HLen, 7)}

\* what the random source supplies during one hybridEncrypt call
HybridDraws ==
    {[aesKey |-> RandomBytes(AesKeyLength, 5), salt |-> RandomBytes(SaltLength, 1),
      iv |-> RandomBytes(IvLength, 3), seed |-> RandomBytes(HLen, 7)],
     [aesKey |-> RandomBytes(AesKeyLength, 6), salt |-> RandomBytes(SaltLength, 2),
      iv |-> RandomBytes(IvLength, 4), seed |-> RandomBytes(HLen, 8)]}

RsaInit ==
    /\ rsaPc = "idle"
    /\ keys = <<>>
    /\ rsaText = <<>>
    /\ rsaKey = 0
    /\ rsaOut = None
    /\ rsaWire = <<>>
    /\ rsaCause = "none"
    /\ rsaBackKey = 0
    /\ rsaBack = None
    /\ hybOut = None
    /\ hybMeta = Undefined
    /\ hybBack = None

GenerateKeys ==
    /\ rsaPc = "idle"
    /\ \E size1 \in KeySizes, size2 \in KeySizes :
        keys' = <<generateRSAKeyPair(size1, 1, 0), generateRSAKeyPair(size2, 2, 0)>>
    /\ rsaPc' = "keys"
    /\ UNCHANGED <<rsaText, rsaKey, rsaOut, rsaWire, rsaCause, rsaBackKey, rsaBack,
                   hybOut, hybMeta, hybBack>>
    /\ UNCHANGED <<aesVars, stegVars, uiVars, pwVars, macVars, concVars, chaVars>>

EncryptRsa ==
    /\ rsaPc = "keys"
    /\ \E t \in RsaTexts, k \in 1..Len(keys), seed \in Seeds :
        /\ rsaText' = t
        /\ rsaKey' = k
        /\ rsaOut' = encryptRSA(t, keys[k].publicKey, seed)
        /\ rsaWire' = IF rsaOut'.ok THEN rsaOut'.value ELSE <<>>
    /\ rsaPc' = "rsaSent"
    /\ UNCHANGED <<keys, rsaCause, rsaBackKey, rsaBack, hybOut, hybMeta, hybBack>>
    /\ UNCHANGED <<aesVars, stegVars, uiVars, pwVars, macVars, concVars, chaVars>>

\* the ciphertext of a short text is altered on the way: one byte changed,
\* bytes cut off or added, or replaced by the encryption of a block that is
\* not a well-formed OAEP block
CorruptCiphertext ==
    /\ rsaPc = "rsaSent"
    /\ rsaOut.ok
    /\ rsaCause = "none"
    /\ Len(rsaText) <= MaxTextLen
    /\ LET bytes == atob(rsaWire).value
           key == ImportKey("spki", atob(keys[rsaKey].publicKey).value)
       IN  \/ \E pos \in {1, 2, HLen + 2, Len(bytes)} :
                /\ rsaWire' = btoa([bytes EXCEPT ![pos] = (@ + 255) % 256])
                /\ rsaCause' = "flip"
           \/ \E len \in {0, Len(bytes) - 1} :
                /\ rsaWire' = btoa(SubSeq(bytes, 1, len))
                /\ rsaCause' = "cut"
           \/ /\ rsaWire' = btoa(bytes \o <<0>>)
              /\ rsaCause' = "cut"
           \/ \E kind \in ForgedBlocks :
                /\ rsaWire' = btoa(ForgeOaep(key, kind, RandomBytes(HLen, 9)))
                /\ rsaCause' = "forged"
    /\ UNCHANGED <<rsaPc, keys, rsaText, rsaKey, rsaOut, rsaBackKey, rsaBack,
                   hybOut, hybMeta, hybBack>>
    /\ UNCHANGED <<aesVars, stegVars, uiVars, pwVars, macVars, concVars, chaVars>>

DecryptRsa ==
    /\ rsaPc = "rsaSent"
    /\ rsaOut.ok
    /\ \E k \in 1..Len(keys) :
        /\ rsaBackKey' = k
        /\ rsaBack' = decryptRSA(rsaWire, keys[k].privateKey)
    /\ rsaPc' = "rsaDone"
    /\ UNCHANGED <<keys, rsaText, rsaKey, rsaOut, rsaWire, rsaCause, hybOut, hybMeta, hybBack>>
    /\ UNCHANGED <<aesVars, stegVars, uiVars, pwVars, macVars, concVars, chaVars>>

HybridEncrypt ==
    /\ rsaPc = "keys"
    /\ \E t \in HybridTexts, k \in 1..Len(keys), d \in HybridDraws :
        /\ rsaText' = t
        /\ rsaKey' = k
        /\ hybOut' = hybridEncrypt(t, keys[k].publicKey, d.aesKey, d.salt, d.iv, d.seed)
        /\ hybMeta' = hybOut'.metadata
    /\ rsaPc' = "hybSent"
    /\ UNCHANGED <<keys, rsaOut, rsaWire, rsaCause, rsaBackKey, rsaBack, hybBack>>
    /\ UNCHANGED <<aesVars, stegVars, uiVars, pwVars, macVars, concVars, chaVars>>

\* the caller hands over no metadata, or metadata without a usable key
LoseKey ==
    /\ rsaPc = "hybSent"
    /\ hybMeta = hybOut.metadata
    /\ hybMeta' \in {Undefined,
                     [type |-> "object", encryptedKey |-> Undefined, algorithm |-> "hybrid"],
                     [type |-> "object", encryptedKey |-> Str(<<>>), algorithm |-> "hybrid"]}
    /\ UNCHANGED <<rsaPc, keys, rsaText, rsaKey, rsaOut, rsaWire, rsaCause, rsaBackKey,
                   rsaBack, hybOut, hybBack>>
    /\ UNCHANGED <<aesVars, stegVars, uiVars, pwVars, macVars, concVars, chaVars>>

HybridDecrypt ==
    /\ rsaPc = "hybSent"
    /\ \E k \in 1..Len(keys) :
        /\ rsaBackKey' = k
        /\ hybBack' = hybridDecrypt(hybOut.encrypted, keys[k].privateKey, hybMeta)
    /\ rsaPc' = "hybDone"
    /\ UNCHANGED <<keys, rsaText, rsaKey, rsaOut, rsaWire, rsaCause, rsaBack, hybOut, hybMeta>>
    /\ UNCHANGED <<aesVars, stegVars, uiVars, pwVars, macVars, concVars, chaVars>>

RsaNext ==
    \/ GenerateKeys
    \/ EncryptRsa
    \/ CorruptCiphertext
    \/ DecryptRsa
    \/ HybridEncrypt
    \/ LoseKey
    \/ HybridDecrypt

---------------------------------------------------------------------------
(* Steganography scenario: an image is drawn on a canvas, a text may be    *)
(* hidden in it, and the canvas is read back.                              *)

StegInit ==
    /\ stegPc = "idle"
    /\ premultiplied = FALSE
    /\ canvas = <<>>
    /\ stegText = <<>>
    /\ dataBefore = <<>>
    /\ dataAfter = <<>>
    /\ revealed = <<>>

\* ctx.drawImage(img, 0, 0) on a fresh canvas of the image's size; how the
\* canvas keeps its pixels is the browser's choice
DrawImage ==
    /\ stegPc = "idle"
    /\ premultiplied' \in BOOLEAN
    /\ \E n \in ImageSizes : \E img \in Images(n) :
        canvas' = PutImageData(premultiplied', img)
    /\ stegPc' = "drawn"
    /\ UNCHANGED <<stegText, dataBefore, dataAfter, revealed>>
    /\ UNCHANGED <<aesVars, rsaVars, uiVars, pwVars, macVars, concVars, chaVars>>

HideText ==
    /\ stegPc = "drawn"
    /\ \E t \in StegTexts :
        /\ stegText' = t
        /\ dataBefore' = hideTextInImage(premultiplied, canvas, t).before
        /\ dataAfter' = hideTextInImage(premultiplied, canvas, t).after
        /\ canvas' = hideTextInImage(premultiplied, canvas, t).canvas
    /\ stegPc' = "hidden"
    /\ UNCHANGED <<premultiplied, revealed>>
    /\ UNCHANGED <<aesVars, rsaVars, uiVars, pwVars, macVars, concVars, chaVars>>

\* on a canvas in which a text was hidden, or on one as drawn ("scanned")
RevealText ==
    /\ stegPc \in {"drawn", "hidden"}
    /\ revealed' = revealTextFromImage(premultiplied, canvas)
    /\ stegPc' = IF stegPc = "hidden" THEN "revealed" ELSE "scanned"
    /\ UNCHANGED <<premultiplied, canvas, stegText, dataBefore, dataAfter>>
    /\ UNCHANGED <<aesVars, rsaVars, uiVars, pwVars, macVars, concVars, chaVars>>

StegNext == DrawImage \/ HideText \/ RevealText

---------------------------------------------------------------------------
(* Panel scenario: an image is uploaded, a secret and a password are       *)
(* typed, the text is hidden, the produced image is uploaded in its turn,  *)
(* the password field is set again, and the text is revealed.              *)

UiInit ==
    /\ uiPc = "start"
    /\ uiPremultiplied = FALSE
    /\ originalImage = NoImage
    /\ processedImage = NoImage
    /\ secretText = <<>>
    /\ passwordField = <<>>
    /\ hidPassword = <<>>
    /\ revealedText = <<>>
    /\ toast = ""

\* handleImageUpload
UploadImage ==
    /\ uiPc = "start"
    /\ ~originalImage.present
    /\ originalImage' \in UiImages
    /\ uiPremultiplied' \in BOOLEAN
    /\ processedImage' = NoImage
    /\ revealedText' = <<>>
    /\ toast' = "Image Loaded"
    /\ UNCHANGED <<uiPc, secretText, passwordField, hidPassword>>
    /\ UNCHANGED <<aesVars, rsaVars, stegVars, pwVars, macVars, concVars, chaVars>>

\* setSecretText, setPassword
TypeInputs ==
    /\ uiPc = "start"
    /\ secretText' \in SecretTexts
    /\ passwordField' \in UiPasswords
    /\ uiPc' = "typed"
    /\ UNCHANGED <<uiPremultiplied, originalImage, processedImage, hidPassword,
                   revealedText, toast>>
    /\ UNCHANGED <<aesVars, rsaVars, stegVars, pwVars, macVars, concVars, chaVars>>

HandleHideText ==
    /\ uiPc = "typed"
    /\ LET out == handleHideText(uiPremultiplied, originalImage, secretText, passwordField)
       IN  /\ toast' = out.toast
           /\ processedImage' = out.processedImage
    /\ hidPassword' = passwordField
    /\ uiPc' = "hid"
    /\ UNCHANGED <<uiPremultiplied, originalImage, secretText, passwordField, revealedText>>
    /\ UNCHANGED <<aesVars, rsaVars, stegVars, pwVars, macVars, concVars, chaVars>>

\* the produced image is downloaded and uploaded: handleImageUpload
UploadProcessed ==
    /\ uiPc = "hid"
    /\ processedImage.present
    /\ originalImage' = processedImage
    /\ processedImage' = NoImage
    /\ revealedText' = <<>>
    /\ toast' = "Image Loaded"
    /\ uiPc' = "reloaded"
    /\ UNCHANGED <<uiPremultiplied, secretText, passwordField, hidPassword>>
    /\ UNCHANGED <<aesVars, rsaVars, stegVars, pwVars, macVars, concVars, chaVars>>

\* setPassword
SetPassword ==
    /\ uiPc = "reloaded"
    /\ passwordField' \in UiPasswords
    /\ uiPc' = "ready"
    /\ UNCHANGED <<uiPremultiplied, originalImage, processedImage, secretText,
                   hidPassword, revealedText, toast>>
    /\ UNCHANGED <<aesVars, rsaVars, stegVars, pwVars, macVars, concVars, chaVars>>

\* on the produced image ("shown"), or on the image as uploaded ("peeked")
HandleRevealText ==
    /\ uiPc \in {"typed", "ready"}
    /\ LET out == handleRevealText(uiPremultiplied, originalImage, passwordField, revealedText)
       IN  /\ toast' = out.toast
           /\ revealedText' = out.revealedText
    /\ uiPc' = IF uiPc = "ready" THEN "shown" ELSE "peeked"
    /\ UNCHANGED <<uiPremultiplied, originalImage, processedImage, secretText,
                   passwordField, hidPassword>>
    /\ UNCHANGED <<aesVars, rsaVars, stegVars, pwVars, macVars, concVars, chaVars>>

UiNext ==
    \/ UploadImage
    \/ TypeInputs
    \/ HandleHideText
    \/ UploadProcessed
    \/ SetPassword
    \/ HandleRevealText

---------------------------------------------------------------------------
(* Password scenario: analyzePasswordStrength is called on one password    *)
(* and then on another.                                                    *)

NoReport == [score |-> 0, strength |-> "", entropy |-> NaN, feedback |-> <<>>]

PwInit ==
    /\ pwPc = "idle"
    /\ pwP = <<>>
    /\ reportP = NoReport
    /\ pwQ = <<>>
    /\ reportQ = NoReport

AnalyzeFirst ==
    /\ pwPc = "idle"
    /\ \E p \in PwInputs :
        /\ pwP' = p
        /\ reportP' = analyzePasswordStrength(p)
    /\ pwPc' = "one"
    /\ UNCHANGED <<pwQ, reportQ>>
    /\ UNCHANGED <<aesVars, rsaVars, stegVars, uiVars, macVars, concVars, chaVars>>

AnalyzeSecond ==
    /\ pwPc = "one"
    /\ \E q \in PwInputs :
        /\ pwQ' = q
        /\ reportQ' = analyzePasswordStrength(q)
    /\ pwPc' = "two"
    /\ UNCHANGED <<pwP, reportP>>
    /\ UNCHANGED <<aesVars, rsaVars, stegVars, uiVars, macVars, concVars, chaVars>>

PwNext == AnalyzeFirst \/ AnalyzeSecond

---------------------------------------------------------------------------
(* Keyed-digest scenario: generateHMAC is called, then called again with   *)
(* the same or another text and secret; or the hash panel is used.         *)

\* texts and secrets: those of the ciphers, and a blank
MacTexts == Texts \cup {<<32>>}

\* longest text given to hashMD5, in code units
MaxMd5Len == 8

\* texts for hashMD5: a character or a few repeated, long enough for the
\* hash to pass 2^31 and 2^32
Md5Texts ==
    {Cycle(chars, n) :
        chars \in {<<97>>, <<0>>, <<65535>>, <<97, 98, 99>>, <<55357, 56832>>},
        n \in 0..MaxMd5Len}

MacInit ==
    /\ macPc = "idle"
    /\ macText = <<>>
    /\ macSecret = <<>>
    /\ macOut = None
    /\ macText2 = <<>>
    /\ macSecret2 = <<>>
    /\ macOut2 = None
    /\ hashToast = ""
    /\ hashResult = <<>>
    /\ checksum = <<>>

GenerateHmac ==
    /\ macPc = "idle"
    /\ \E text \in MacTexts, secret \in MacTexts :
        /\ macText' = text
        /\ macSecret' = secret
        /\ macOut' = generateHMAC(text, secret)
    /\ macPc' = "one"
    /\ UNCHANGED <<macText2, macSecret2, macOut2, hashToast, hashResult, checksum>>
    /\ UNCHANGED <<aesVars, rsaVars, stegVars, uiVars, pwVars, concVars, chaVars>>

GenerateHmacAgain ==
    /\ macPc = "one"
    /\ \E text \in {macText, <<97>>}, secret \in {macSecret, <<>>, <<112>>} :
        /\ macText2' = text
        /\ macSecret2' = secret
        /\ macOut2' = generateHMAC(text, secret)
    /\ macPc' = "two"
    /\ UNCHANGED <<macText, macSecret, macOut, hashToast, hashResult, checksum>>
    /\ UNCHANGED <<aesVars, rsaVars, stegVars, uiVars, pwVars, concVars, chaVars>>

\* setInputText, setHmacSecret, processHash
ProcessHash ==
    /\ macPc = "idle"
    /\ \E text \in MacTexts, secret \in MacTexts :
        /\ macText' = text
        /\ macSecret' = secret
        /\ hashToast' = processHash(text, secret, hashResult).toast
        /\ hashResult' = processHash(text, secret, hashResult).hashResult
    /\ macPc' = "panel"
    /\ UNCHANGED <<macOut, macText2, macSecret2, macOut2, checksum>>
    /\ UNCHANGED <<aesVars, rsaVars, stegVars, uiVars, pwVars, concVars, chaVars>>

HashMd5 ==
    /\ macPc = "idle"
    /\ \E text \in Md5Texts :
        /\ macText' = text
        /\ checksum' = hashMD5(text)
    /\ macPc' = "md5"
    /\ UNCHANGED <<macSecret, macOut, macText2, macSecret2, macOut2, hashToast, hashResult>>
    /\ UNCHANGED <<aesVars, rsaVars, stegVars, uiVars, pwVars, concVars, chaVars>>

MacNext == GenerateHmac \/ GenerateHmacAgain \/ ProcessHash \/ HashMd5

---------------------------------------------------------------------------
(* Concurrent scenario: two callers each start one call of a cipher        *)
(* function; the event loop resumes the calls in any order.                *)

Callers == {1, 2}

ConcKeys == <<generateRSAKeyPair(2048, 1, 0), generateRSAKeyPair(2048, 2, 0)>>

\* what earlier, finished calls produced, for the decrypting calls to read
ConcSealed == encryptAES256(<<97>>, <<112, 119>>, RandomBytes(SaltLength, 21),
                            RandomBytes(IvLength, 22))

ConcWrapped == encryptRSA(<<97>>, ConcKeys[1].publicKey, RandomBytes(HLen, 23))

ConcHybrid == hybridEncrypt(<<97>>, ConcKeys[1].publicKey, RandomBytes(AesKeyLength, 24),
                            RandomBytes(SaltLength, 25), RandomBytes(IvLength, 26),
                            RandomBytes(HLen, 27))

ConcCalls ==
    {Call("encryptAES256", [text |-> <<97>>, password |-> <<112, 119>>]),
     Call("encryptAES256", [text |-> <<>>, password |-> <<80, 119>>]),
     Call("decryptAES256", [encryptedData |-> ConcSealed.encrypted,
                            password |-> <<112, 119>>]),
     Call("decryptAES256", [encryptedData |-> ConcSealed.encrypted,
                            password |-> <<80, 119>>]),
     Call("encryptRSA", [text |-> <<97>>, publicKeyB64 |-> ConcKeys[1].publicKey]),
     Call("decryptRSA", [encryptedData |-> ConcWrapped.value,
                         privateKeyB64 |-> ConcKeys[1].privateKey]),
     Call("decryptRSA", [encryptedData |-> ConcWrapped.value,
                         privateKeyB64 |-> ConcKeys[2].privateKey]),
     Call("hybridEncrypt", [text |-> <<97>>, publicKeyB64 |-> ConcKeys[1].publicKey]),
     Call("hybridDecrypt", [encryptedData |-> ConcHybrid.encrypted,
                            privateKeyB64 |-> ConcKeys[1].privateKey,
                            metadata |-> ConcHybrid.metadata]),
     Call("hybridDecrypt", [encryptedData |-> ConcHybrid.encrypted,
                            privateKeyB64 |-> ConcKeys[2].privateKey,
                            metadata |-> ConcHybrid.metadata]),
     Call("hybridDecrypt", [encryptedData |-> ConcSealed.encrypted,
                            privateKeyB64 |-> ConcKeys[1].privateKey,
                            metadata |-> ConcHybrid.metadata]),
     Call("hybridDecrypt", [encryptedData |-> ConcHybrid.encrypted,
                            privateKeyB64 |-> ConcKeys[1].privateKey,
                            metadata |-> Undefined])}

ConcInit ==
    /\ frames = [c \in Callers |-> NoFrame]
    /\ randomLog = <<>>

\* a caller calls a function: its synchronous start runs at once
Invoke ==
    /\ \E c \in Callers, call \in ConcCalls :
        /\ frames[c].fn = "none"
        /\ LET frame == Resume(call, randomLog)
           IN  /\ frames' = [frames EXCEPT ![c] = frame]
               /\ randomLog' = Drawn(randomLog, call, frame)
    /\ UNCHANGED <<aesVars, rsaVars, stegVars, uiVars, pwVars, macVars, chaVars>>

\* the promise a call awaits has settled: the call runs on
Continue ==
    /\ \E c \in Callers :
        /\ frames[c].fn # "none"
        /\ frames[c].pc # "settled"
        /\ LET frame == Resume(frames[c], randomLog)
           IN  /\ frames' = [frames EXCEPT ![c] = frame]
               /\ randomLog' = Drawn(randomLog, frames[c], frame)
    /\ UNCHANGED <<aesVars, rsaVars, stegVars, uiVars, pwVars, macVars, chaVars>>

ConcNext == Invoke \/ Continue

---------------------------------------------------------------------------
(* ChaCha20-labelled scenario: one encryptChaCha20 call, then one          *)
(* decryptChaCha20 call on its result with a password of the caller's      *)
(* choice.                                                                 *)

\* passwords: short ones, with and without zeros at the end, one that is
\* not ASCII, and ones of 31, 32 and 33 characters
ChaPasswords ==
    {<<>>, <<48>>, <<97>>, <<98>>, <<97, 48>>, <<97, 48, 48>>, <<97, 49>>, <<233>>,
     Rep(97, 31), Rep(97, 31) \o <<48>>, Rep(97, 32), Rep(97, 33)}

ChaInit ==
    /\ chaPc = "idle"
    /\ chaText = <<>>
    /\ chaPassword = <<>>
    /\ chaResult = None
    /\ chaPassword2 = <<>>
    /\ chaBack = None

EncryptChaCha20 ==
    /\ chaPc = "idle"
    /\ \E t \in Texts, p \in ChaPasswords, s \in Salts, n \in Ivs :
        /\ chaText' = t
        /\ chaPassword' = p
        /\ chaResult' = encryptChaCha20(t, p, s, n)
    /\ chaPc' = "sent"
    /\ UNCHANGED <<chaPassword2, chaBack>>
    /\ UNCHANGED <<aesVars, rsaVars, stegVars, uiVars, pwVars, macVars, concVars>>

DecryptChaCha20 ==
    /\ chaPc = "sent"
    /\ chaResult.ok
    /\ \E p \in ChaPasswords :
        /\ chaPassword2' = p
        /\ chaBack' = decryptChaCha20(chaResult.encrypted, p, chaResult.iv, chaResult.salt)
    /\ chaPc' = "done"
    /\ UNCHANGED <<chaText, chaPassword, chaResult>>
    /\ UNCHANGED <<aesVars, rsaVars, stegVars, uiVars, pwVars, macVars, concVars>>

ChaNext == EncryptChaCha20 \/ DecryptChaCha20

---------------------------------------------------------------------------
(* Specifications: each scenario on its own, the others at rest *)

Init ==
    AesInit /\ RsaInit /\ StegInit /\ UiInit /\ PwInit /\ MacInit /\ ConcInit /\ ChaInit

SpecMac == Init /\ [][MacNext]_vars

SpecPw == Init /\ [][PwNext]_vars

SpecUi == Init /\ [][UiNext]_vars

SpecSteg == Init /\ [][StegNext]_vars

SpecAes == Init /\ [][AesNext]_vars

SpecRsa == Init /\ [][RsaNext]_vars

SpecConc == Init /\ [][ConcNext]_vars

SpecCha == Init /\ [][ChaNext]_vars

---------------------------------------------------------------------------
(* Claims about the symmetric cipher, checked under SpecAes *)

Intact == wireEdit.kind = "none"

EnvelopeStart == SaltLength + IvLength

\* C1: decrypting an unaltered envelope with the password it was encrypted
\* under returns exactly the text that was encrypted, whatever salt and
\* nonce were drawn.  Stated for the texts UTF-8 can carry (no unpaired
\* surrogate), for which the claim is violated already.
C1_RoundTrip ==
    (aesPc = "done" /\ Intact /\ decPassword = aesPassword /\ WellFormed(aesText))
        => (decResult.ok /\ decResult.value = aesText)

\* C2: after one byte at position 28 or later of the decoded blob was
\* changed, decrypting with the encryption password fails with the
\* authentication failure (OperationError) and returns no plaintext.
C2_TamperDetected ==
    (aesPc = "done" /\ wireEdit.kind = "flip" /\ wireEdit.pos > EnvelopeStart
        /\ decPassword = aesPassword)
        => (~decResult.ok /\ decResult.error = "OperationError")

C2_Witness ==
    /\ aesPc = "done"
    /\ wireEdit.kind = "flip"
    /\ wireEdit.pos > EnvelopeStart
    /\ decPassword = aesPassword
    /\ Len(aesText) > 0
    /\ ~decResult.ok

C4_EnvelopeLayout ==
    /\ aesPc # "idle" =>
        LET combined == atob(aesResult.encrypted).value
            data == TextEncoderEncode(aesText)
            key == Pbkdf2(TextEncoderEncode(aesPassword), aesSalt, Iterations)
        IN  /\ Len(combined) = 28 + Len(data) + 16
            /\ \A i \in 1..16 : combined[i] = aesSalt[i]
            /\ \A i \in 1..12 : combined[16 + i] = aesIv[i]
            /\ SubSeq(combined, 29, Len(combined)) = AesGcmEncrypt(key, aesIv, data)
    /\ (aesPc = "done" /\ Intact) =>
        /\ decResult.salt = aesSalt
        /\ decResult.iv = aesIv
        /\ decResult.encrypted =
               SubSeq(atob(aesResult.encrypted).value, 29,
                      Len(atob(aesResult.encrypted).value))

C4_Witness ==
    /\ aesPc = "done"
    /\ Intact
    /\ Len(aesText) = MaxTextLen
    /\ decResult.ok
    /\ aesSalt # decResult.iv

\* C9: a blob whose decoded length is below 28 bytes is refused with a
\* format error, not the authentication failure, before any key derivation
\* or authenticated decryption is attempted.
C9_ShortBlobFormatError ==
    (aesPc = "done" /\ Len(atob(wire).value) < EnvelopeStart)
        => /\ ~decResult.ok
           /\ decResult.error = "FormatError"
           /\ \A i \in 1..Len(decResult.calls) :
                  decResult.calls[i] \notin {"importKey", "deriveKey", "decrypt"}

---------------------------------------------------------------------------
(* Claims about the public-key and hybrid ciphers, checked under SpecRsa *)

Utf8Length(text) == Len(TextEncoderEncode(text))

\* C5: hybridDecrypt of what hybridEncrypt returned, with the private key
\* of the key pair whose public key encrypted it and the metadata as
\* returned, gives back exactly the text, of any length.  Stated for the
\* texts UTF-8 can carry.
C5_HybridRoundTrip ==
    (rsaPc = "hybDone" /\ hybMeta = hybOut.metadata /\ rsaBackKey = rsaKey
        /\ WellFormed(rsaText))
        => (hybBack.ok /\ hybBack.value = rsaText)

\* C7: encryptRSA fails (OperationError: the payload is too large) when the
\* UTF-8 length of the text exceeds 190 bytes under a 2048-bit key and 446
\* bytes under a 4096-bit key; otherwise it succeeds and decryptRSA with
\* the matching private key returns the text.  Stated for the texts UTF-8
\* can carry.
C7_AsymmetricCapacity ==
    (rsaPc \in {"rsaSent", "rsaDone"} /\ WellFormed(rsaText)) =>
        LET ceiling == IF keys[rsaKey].keySize = 2048 THEN 190 ELSE 446
        IN  IF Utf8Length(rsaText) > ceiling
            THEN ~rsaOut.ok /\ rsaOut.error = "OperationError"
            ELSE /\ rsaOut.ok
                 /\ (rsaPc = "rsaDone" /\ rsaBackKey = rsaKey /\ rsaCause = "none")
                        => (rsaBack.ok /\ rsaBack.value = rsaText)

NoEncryptedKey ==
    \/ hybMeta.type = "undefined"
    \/ hybMeta.encryptedKey.type = "undefined"
    \/ hybMeta.encryptedKey.chars = <<>>

\* C8: when metadata is missing, or its encryptedKey is missing or empty,
\* hybridDecrypt fails with the missing-key error and has called neither
\* decryptRSA nor decryptAES256.
C8_MissingSessionKey ==
    (rsaPc = "hybDone" /\ NoEncryptedKey)
        => /\ ~hybBack.ok
           /\ hybBack.error = "Missing encrypted key in metadata"
           /\ hybBack.calls = <<>>

\* the metadata object is there, with an empty encryptedKey
C8_Witness ==
    /\ rsaPc = "hybDone"
    /\ hybMeta.type = "object"
    /\ hybMeta.encryptedKey.type = "string"
    /\ hybMeta.encryptedKey.chars = <<>>
    /\ ~hybBack.ok

---------------------------------------------------------------------------
(* Claims about the steganography codec, checked under SpecSteg *)

Below128(text) == \A i \in 1..Len(text) : text[i] < 128

\* number of samples at the red position of a buffer
RedSamples(data) == (Len(data) + 3) \div 4

\* C6: for a text whose characters are all below 128 and an image of at
\* least (len * 8 + 16) * 4 samples, whatever it showed before, reading the
\* canvas back after hiding returns exactly the hidden text.
C6_StegRoundTrip ==
    (stegPc = "revealed" /\ Below128(stegText)
        /\ Len(canvas) >= (Len(stegText) * 8 + 16) * 4)
        => revealed = stegText

C12_SentinelUnique ==
    stegPc \in {"hidden", "revealed"} =>
        IndexOf(textToBinary(stegText), EndMarker)
            = Len(textToBinary(stegText)) - Len(EndMarker)

\* the low bits of the red samples that revealTextFromImage reads
CanvasBits == ExtractBits(GetImageData(premultiplied, canvas))

\* C13 (as stated): revealTextFromImage on a canvas in which nothing was
\* hidden returns the empty text, whatever the image.
C13_UntouchedRevealsNothing ==
    stegPc = "scanned" => revealed = <<>>

\* C13 (amended): on a canvas in which nothing was hidden,
\* revealTextFromImage returns the empty text exactly when the low bits of
\* the red samples do not hold the end marker, or hold it first at a bit
\* offset below 8.
C13_UntouchedRevealsNothingWithoutMarker ==
    stegPc = "scanned" =>
        (revealed = <<>> <=> IndexOf(CanvasBits, EndMarker) < 8)

\* an image with ones among its low bits and no end marker was read
C13_Witness ==
    /\ stegPc = "scanned"
    /\ IndexOf(CanvasBits, EndMarker) = -1
    /\ Len(CanvasBits) >= Len(EndMarker) + 8
    /\ \E k \in 1..8 : CanvasBits[k] = 1
    /\ revealed = <<>>

---------------------------------------------------------------------------
(* Claims about the steganography panel, checked under SpecUi *)

Below256(text) == \A i \in 1..Len(text) : text[i] < 256

\* the uploaded image has a red sample for every bit of the payload
LargeEnough(image, secret, pass) ==
    RedSamples(image.data) >= Len(textToBinary(TextToHide(secret, pass)))

\* C14: for every secret text S and non-empty password P of characters
\* below 256 and an image large enough, hiding S with P produces an image,
\* and revealing from that image with the same P shows exactly S.
C14_GatedRoundTrip ==
    /\ (uiPc = "hid" /\ originalImage.present
            /\ Below256(secretText) /\ Below256(hidPassword) /\ hidPassword # <<>>
            /\ LargeEnough(originalImage, secretText, hidPassword))
        => processedImage.present
    /\ (uiPc = "shown" /\ passwordField = hidPassword
            /\ Below256(secretText) /\ Below256(hidPassword) /\ hidPassword # <<>>
            /\ LargeEnough(originalImage, secretText, hidPassword))
        => revealedText = secretText

\* C15: when S was hidden with a non-empty password P, a reveal with any
\* other password, or with none, is rejected as a wrong password and shows
\* nothing.
C15_GateRejects ==
    (uiPc = "shown" /\ hidPassword # <<>> /\ passwordField # hidPassword)
        => (toast = "Wrong Password" /\ revealedText = <<>>)

---------------------------------------------------------------------------
(* Claims about analyzePasswordStrength, checked under SpecPw *)

\* the k-th of the seven conditions of the score
Condition(k, password) ==
    CASE k = 1 -> Len(password) >= 8
      [] k = 2 -> Len(password) >= 12
      [] k = 3 -> Len(password) >= 16
      [] k = 4 -> \E i \in 1..Len(password) : password[i] >= 97 /\ password[i] <= 122
      [] k = 5 -> \E i \in 1..Len(password) : password[i] >= 65 /\ password[i] <= 90
      [] k = 6 -> \E i \in 1..Len(password) : password[i] >= 48 /\ password[i] <= 57
      [] k = 7 -> \E i \in 1..Len(password) :
                    ~(\/ (password[i] >= 97 /\ password[i] <= 122)
                      \/ (password[i] >= 65 /\ password[i] <= 90)
                      \/ (password[i] >= 48 /\ password[i] <= 57))

\* the character categories a password contains, as a subset of 4..7
Categories(password) == {k \in 4..7 : Condition(k, password)}

AllFour(password) == Categories(password) = 4..7

\* C16: the score is an integer from 0 to 7, the number of conditions the
\* password satisfies among: length >= 8, >= 12, >= 16, a lowercase letter,
\* an uppercase letter, a digit, a symbol.
C16_ScoreCountsConditions ==
    pwPc # "idle" =>
        /\ reportP.score \in 0..7
        /\ reportP.score = Cardinality({k \in 1..7 : Condition(k, pwP)})

\* a password of 16 characters or more with all four categories was scored
C16_Witness ==
    /\ pwPc = "one"
    /\ Len(pwP) >= 16
    /\ AllFour(pwP)
    /\ reportP.score = 7

\* C17: the label follows from the score (up to 2 weak, 3 or 4 fair, 5
\* good, 6 strong, 7 excellent); a password of 8 to 11 characters with all
\* four categories has score 5 and label good; the label is excellent
\* exactly for passwords of 16 characters or more with all four categories.
C17_LabelFromScore ==
    pwPc # "idle" =>
        /\ reportP.strength =
             (CASE reportP.score <= 2 -> "weak"
                [] reportP.score \in {3, 4} -> "fair"
                [] reportP.score = 5 -> "good"
                [] reportP.score = 6 -> "strong"
                [] reportP.score >= 7 -> "excellent")
        /\ (Len(pwP) >= 8 /\ Len(pwP) <= 11 /\ AllFour(pwP))
             => (reportP.score = 5 /\ reportP.strength = "good")
        /\ reportP.strength = "excellent" <=> (Len(pwP) >= 16 /\ AllFour(pwP))

\* "Tr0ub4dor&3" was analysed and is good
C17_Witness ==
    /\ pwPc = "one"
    /\ pwP = Troubador
    /\ reportP.score = 5
    /\ reportP.strength = "good"

\* C18: for passwords p and q with the same character categories and q at
\* least as long as p, the score and the entropy of q are at least those
\* of p.
C18_Monotone ==
    (pwPc = "two" /\ Categories(pwP) = Categories(pwQ) /\ Len(pwQ) >= Len(pwP))
        => /\ reportQ.score >= reportP.score
           /\ GreaterOrEqual(reportQ.entropy, reportP.entropy)

\* one entry for each absent category, in the order lowercase, uppercase,
\* digit, symbol
MissingCategories(password) ==
    (IF Condition(4, password) THEN <<>> ELSE <<"Include lowercase letters">>)
    \o (IF Condition(5, password) THEN <<>> ELSE <<"Include uppercase letters">>)
    \o (IF Condition(6, password) THEN <<>> ELSE <<"Include numbers">>)
    \o (IF Condition(7, password) THEN <<>> ELSE <<"Include special characters">>)

\* C19 (as stated): the feedback list has one entry for each absent
\* category, in the order lowercase, uppercase, digit, symbol, and no other
\* entry; it is empty whenever all four categories are present.
C19_FeedbackPerCategory ==
    pwPc # "idle" =>
        /\ reportP.feedback = MissingCategories(pwP)
        /\ AllFour(pwP) => reportP.feedback = <<>>

\* C19 (amended): the feedback list starts with "Use at least 8 characters"
\* when the password is shorter than 8, followed by one entry for each
\* absent category in the order lowercase, uppercase, digit, symbol, and
\* has no other entry; it is empty exactly when the password has 8
\* characters or more and all four categories.
C19_FeedbackLengthThenCategories ==
    pwPc # "idle" =>
        /\ reportP.feedback =
             (IF Len(pwP) < 8 THEN <<"Use at least 8 characters">> ELSE <<>>)
                \o MissingCategories(pwP)
        /\ reportP.feedback = <<>> <=> (Len(pwP) >= 8 /\ AllFour(pwP))

\* a short password with all four categories got the length entry alone
C19_Witness ==
    /\ pwPc = "one"
    /\ Len(pwP) < 8
    /\ AllFour(pwP)
    /\ reportP.feedback = <<"Use at least 8 characters">>

---------------------------------------------------------------------------
(* Claims about the keyed digest, checked under SpecMac *)

---------------------------------------------------------------------------
(* Further claims about the public-key and hybrid ciphers, under SpecRsa *)

---------------------------------------------------------------------------
(* Claims about the legacy checksum, checked under SpecMac *)

\* h after the first i code units: h := (31 * h + c) wrapped to 32 bits
RECURSIVE Times31(_, _)
Times31(text, i) ==
    IF i = 0 THEN [hi |-> 0, lo |-> 0]
    ELSE LET h == Times31(text, i - 1)
             lo == (31 * h.lo) + text[i]
         IN  [hi |-> ((31 * h.hi) + (lo \div 65536)) % 65536, lo |-> lo % 65536]

\* the 8 hexadecimal digits of |h|
AbsHex8(h) ==
    LET neg == h.hi >= 32768
        lo == IF neg THEN (65536 - h.lo) % 65536 ELSE h.lo
        hi == IF neg THEN (65535 - h.hi + (IF h.lo = 0 THEN 1 ELSE 0)) % 65536 ELSE h.hi
        nibble(x, j) == (x \div (IF j = 1 THEN 4096 ELSE IF j = 2 THEN 256
                                 ELSE IF j = 3 THEN 16 ELSE 1)) % 16
    IN  [j \in 1..8 |-> IF j <= 4 THEN nibble(hi, j) ELSE nibble(lo, j - 4)]

\* C22: for every text, the empty one included, hashMD5 returns exactly 8
\* hexadecimal digits, zero-padded, whose value is |h|, h being 0 for the
\* empty text and otherwise 31 * h + c over the code units c, wrapped to a
\* signed 32-bit integer.
C22_ChecksumEightDigits ==
    macPc = "md5" =>
        /\ Len(checksum) = 8
        /\ checksum = AbsHex8(Times31(macText, Len(macText)))

---------------------------------------------------------------------------
(* Claims about concurrent calls, checked under SpecConc *)

\* the draw of a kind a call took, or the empty sequence
DrawTaken(frame, kind) ==
    LET taken == SelectSeq(AllLog(frame), LAMBDA entry : entry.kind = kind)
    IN  IF taken = <<>> THEN <<>> ELSE Draw(kind, taken[1].index)

\* what the function returns when called alone with the arguments and the
\* draws of the frame
Alone(frame) ==
    LET a == frame.args
        D(kind) == DrawTaken(frame, kind)
        Outcome(r, value) ==
            IF r.ok THEN [ok |-> TRUE, value |-> value]
            ELSE [ok |-> FALSE, error |-> r.error]
    IN  CASE frame.fn = "encryptAES256" ->
                LET r == encryptAES256(a.text, a.password, D("salt"), D("iv"))
                IN  Outcome(r, [encrypted |-> r.encrypted, salt |-> r.salt, iv |-> r.iv])
          [] frame.fn = "decryptAES256" ->
                LET r == decryptAES256(a.encryptedData, a.password)
                IN  Outcome(r, r.value)
          [] frame.fn = "encryptRSA" ->
                LET r == encryptRSA(a.text, a.publicKeyB64, D("seed"))
                IN  Outcome(r, r.value)
          [] frame.fn = "decryptRSA" ->
                LET r == decryptRSA(a.encryptedData, a.privateKeyB64)
                IN  Outcome(r, r.value)
          [] frame.fn = "hybridEncrypt" ->
                LET r == hybridEncrypt(a.text, a.publicKeyB64, D("aesKey"), D("salt"),
                                       D("iv"), D("seed"))
                IN  Outcome(r, [encrypted |-> r.encrypted, iv |-> r.iv, salt |-> r.salt,
                                metadata |-> r.metadata])
          [] frame.fn = "hybridDecrypt" ->
                LET r == hybridDecrypt(a.encryptedData, a.privateKeyB64, a.metadata)
                IN  Outcome(r, r.value)

\* C23: however the steps of two concurrent calls of encryptAES256,
\* decryptAES256, encryptRSA, decryptRSA, hybridEncrypt and hybridDecrypt are
\* interleaved, each call settles with what it returns when called alone
\* with the same arguments and the same random draws.
C23_InterleavingIndependent ==
    \A c \in Callers :
        frames[c].pc = "settled" => frames[c].out = Alone(frames[c])

\* both calls drew from the random source, the second started while the
\* first awaited, and both have settled
C23_Witness ==
    /\ \A c \in Callers : frames[c].pc = "settled" /\ DrawsOf(frames[c].log) # <<>>
    /\ \E c \in Callers :
        /\ frames[c].fn = "encryptAES256"
        /\ \E i \in 1..Len(frames[c].log) : frames[c].log[i].kind = "salt"
                                           /\ frames[c].log[i].index = 1
        /\ \E i \in 1..Len(frames[c].log) : frames[c].log[i].kind = "iv"
                                           /\ frames[c].log[i].index > 2


\* how many entries of a kind a log has
CountKind(log, kind) == Len(SelectSeq(log, LAMBDA entry : entry.kind = kind))

\* the places in the random source a call drew from
IndicesOf(frame) ==
    {DrawsOf(AllLog(frame))[i].index : i \in 1..Len(DrawsOf(AllLog(frame)))}

\* the encryptAES256 calls made so far, directly or by hybridEncrypt
EncryptCalls ==
    CountKind(AllLog(frames[1]), "encryptAES256")
        + CountKind(AllLog(frames[2]), "encryptAES256")

\* C24: every encryptAES256 call draws a 16-byte salt and a 12-byte nonce
\* from the random source during that call and uses these two, none drawn by
\* another call; the salts drawn are as many as the calls, and so are the
\* nonces once the calls have settled.
C24_FreshSaltAndNonce ==
    /\ CountKind(randomLog, "salt") = EncryptCalls
    /\ CountKind(randomLog, "iv") <= EncryptCalls
    /\ (\A c \in Callers : frames[c].pc \in {"none", "settled"})
            => CountKind(randomLog, "iv") = EncryptCalls
    /\ IndicesOf(frames[1]) \cap IndicesOf(frames[2]) = {}
    /\ \A c \in Callers :
        (/\ frames[c].pc = "settled"
         /\ frames[c].fn \in {"encryptAES256", "hybridEncrypt"}
         /\ frames[c].out.ok)
            => /\ CountKind(frames[c].log, "salt") = 1
               /\ CountKind(frames[c].log, "iv") = 1
               /\ frames[c].out.value.salt = btoa(DrawTaken(frames[c], "salt"))
               /\ frames[c].out.value.iv = btoa(DrawTaken(frames[c], "iv"))
               /\ Slice(atob(frames[c].out.value.encrypted).value, 0,
                        SaltLength + IvLength)
                    = DrawTaken(frames[c], "salt") \o DrawTaken(frames[c], "iv")

\* two encryptAES256 calls, interleaved, have settled
C24_Witness ==
    /\ \A c \in Callers : frames[c].fn = "encryptAES256" /\ frames[c].pc = "settled"
    /\ CountKind(randomLog, "salt") = 2
    /\ CountKind(randomLog, "iv") = 2
    /\ randomLog[2].kind = "salt"


\* the session key of a hybridEncrypt call, as the string the call uses
SessionKey(frame) == btoa(DrawTaken(frame, "aesKey"))

\* C26: the session key of hybridEncrypt is 32 bytes drawn in that call and
\* in no other; the string given to encryptAES256 as password is the string
\* given to encryptRSA as text; and what decryptRSA recovers in
\* hybridDecrypt is what decryptAES256 is given as password.
C26_SessionKeyBinding ==
    /\ \A c \in Callers :
        frames[c].fn = "hybridEncrypt" =>
            /\ CountKind(frames[c].log, "aesKey") = 1
            /\ Len(DrawTaken(frames[c], "aesKey")) = 32
            /\ frames[c].callee.fn = "encryptAES256"
                    => frames[c].callee.args.password = SessionKey(frames[c])
            /\ frames[c].callee.fn = "encryptRSA"
                    => frames[c].callee.args.text = SessionKey(frames[c])
            /\ (frames[c].pc = "settled" /\ frames[c].out.ok)
                    => /\ decryptRSA(frames[c].out.value.metadata.encryptedKey.chars,
                                     ConcKeys[1].privateKey).value = SessionKey(frames[c])
                       /\ decryptAES256(frames[c].out.value.encrypted,
                                        SessionKey(frames[c])).ok
    /\ (frames[1].fn = "hybridEncrypt" /\ frames[2].fn = "hybridEncrypt")
            => /\ IndicesOf(frames[1]) \cap IndicesOf(frames[2]) = {}
               /\ SessionKey(frames[1]) # SessionKey(frames[2])
    /\ \A c \in Callers :
        (frames[c].fn = "hybridDecrypt" /\ frames[c].callee.fn = "decryptAES256")
            => /\ frames[c].callee.args.password = frames[c].env.aesKey
               /\ frames[c].env.aesKey
                    = decryptRSA(frames[c].args.metadata.encryptedKey.chars,
                                 frames[c].args.privateKeyB64).value

\* a hybridEncrypt call has settled while a hybridDecrypt call is inside
\* decryptAES256
C26_Witness ==
    /\ frames[1].fn = "hybridEncrypt"
    /\ frames[1].pc = "settled"
    /\ frames[1].out.ok
    /\ frames[2].fn = "hybridDecrypt"
    /\ frames[2].callee.fn = "decryptAES256"
    /\ frames[2].callee.pc = "deriveKey"

\* the calls a frame made, in order, without the call of the frame itself
CalleesOf(frame) ==
    LET marks == SelectSeq(AllLog(frame), LAMBDA entry : entry.index = 0)
    IN  [i \in 1..(Len(marks) - 1) |-> marks[i + 1].kind]

\* what hybridDecrypt is bound to report, from its arguments alone
RsaPart(frame) ==
    decryptRSA(frame.args.metadata.encryptedKey.chars, frame.args.privateKeyB64)

AesPart(frame) == decryptAES256(frame.args.encryptedData, RsaPart(frame).value)

HybridDecryptOrder(c) ==
    LET f == frames[c]
    IN  (f.fn = "hybridDecrypt" /\ ~Falsy(OptionalEncryptedKey(f.args.metadata))) =>
            /\ CalleesOf(f) \in {<<"decryptRSA">>, <<"decryptRSA", "decryptAES256">>}
            /\ ~RsaPart(f).ok => CalleesOf(f) = <<"decryptRSA">>
            /\ (f.pc = "settled" /\ ~RsaPart(f).ok)
                    => f.out = [ok |-> FALSE, error |-> RsaPart(f).error]
            /\ (f.pc = "settled" /\ RsaPart(f).ok /\ ~AesPart(f).ok)
                    => /\ CalleesOf(f) = <<"decryptRSA", "decryptAES256">>
                       /\ f.out = [ok |-> FALSE, error |-> AesPart(f).error]

\* decryptAES256 is only ever called by a step that finds decryptRSA settled
\* with a value
AesAfterRsa(c) ==
    (frames'[c].callee.fn = "decryptAES256" /\ frames[c].callee.fn # "decryptAES256")
        => /\ frames[c].callee.fn = "decryptRSA"
           /\ frames[c].callee.pc = "settled"
           /\ frames[c].callee.out.ok

\* C27: hybridDecrypt calls decryptRSA first and decryptAES256 only after
\* decryptRSA has succeeded.  When decryptRSA fails, decryptAES256 is never
\* called and the caller gets that failure; when decryptAES256 fails, the
\* caller gets that failure; in neither case is a text returned.
C27_RsaThenAes ==
    /\ [](\A c \in Callers : HybridDecryptOrder(c))
    /\ [][\A c \in Callers : frames'[c].fn = "hybridDecrypt" => AesAfterRsa(c)]_vars

\* one hybridDecrypt call failed in decryptRSA, the other in decryptAES256
C27_Witness ==
    /\ \A c \in Callers : frames[c].fn = "hybridDecrypt" /\ frames[c].pc = "settled"
    /\ CalleesOf(frames[1]) = <<"decryptRSA">>
    /\ frames[1].out.error = "OperationError"
    /\ CalleesOf(frames[2]) = <<"decryptRSA", "decryptAES256">>
    /\ ~frames[2].out.ok

---------------------------------------------------------------------------
(* Further claims about the hybrid cipher, checked under SpecRsa *)

\* what encryptRSA was given inside hybridEncrypt: the matching private key
\* recovers it from metadata.encryptedKey
WrappedPayload ==
    decryptRSA(hybOut.metadata.encryptedKey.chars, keys[rsaKey].privateKey)

\* C25: whatever the length of the text, hybridEncrypt hands encryptRSA the
\* 44-character base64 string of a 32-byte key, which is within the OAEP
\* ceiling of both key sizes: hybridEncrypt never fails with the
\* payload-too-large error.
C25_SessionKeyFits ==
    rsaPc \in {"hybSent", "hybDone"} =>
        /\ hybOut.ok
        /\ LET payload == WrappedPayload
               key == atob(payload.value)
           IN  /\ payload.ok
               /\ Len(payload.value) = 44
               /\ key.ok
               /\ Len(key.value) = AesKeyLength
               /\ Utf8Length(payload.value) <= OaepCeiling(2048)

\* a text longer than the ceiling of either key size, under the smaller key
C25_Witness ==
    /\ rsaPc = "hybSent"
    /\ keys[rsaKey].keySize = 2048
    /\ Utf8Length(rsaText) > OaepCeiling(4096)
    /\ hybOut.ok


---------------------------------------------------------------------------
(* Further claims about the steganography codec, checked under SpecSteg *)

\* C28: for every text, textToBinary(text) is 8 bits for each character
\* followed by the 16-bit end marker: its length is 8 * len(text) + 16 and
\* character k, counted from 0, is spelled by bits 8k to 8k + 7.
C28_EightBitsPerCharacter ==
    stegPc \in {"hidden", "revealed"} =>
        LET bits == textToBinary(stegText)
        IN  /\ Len(bits) = (8 * Len(stegText)) + 16
            /\ \A k \in 0..(Len(stegText) - 1) :
                ParseBinary(SubSeq(bits, (8 * k) + 1, (8 * k) + 8)) = stegText[k + 1]
            /\ SubSeq(bits, (8 * Len(stegText)) + 1, Len(bits)) = EndMarker


---------------------------------------------------------------------------
(* Further claims about the password analyser, checked under SpecPw *)

\* 26, 26, 10 and 32 summed over the categories a password has
EffectiveCharsetSize(password) ==
    (IF 4 \in Categories(password) THEN 26 ELSE 0)
    + (IF 5 \in Categories(password) THEN 26 ELSE 0)
    + (IF 6 \in Categories(password) THEN 10 ELSE 0)
    + (IF 7 \in Categories(password) THEN 32 ELSE 0)

\* C29: the charset size behind the entropy is the sum of 26, 26, 10 and 32
\* over the categories present and is at least 10 for a password that is
\* not empty; the entropy returned is a finite number, 0 or more, for every
\* password, the empty one included.
C29_EntropyWellDefined ==
    pwPc # "idle" =>
        /\ pwP # <<>> =>
            /\ EffectiveCharsetSize(pwP) >= 10
            /\ reportP.entropy = Number(Len(pwP) * Log2Milli(EffectiveCharsetSize(pwP)))
        /\ reportP.entropy.kind = "number"
        /\ reportP.entropy.milli >= 0


---------------------------------------------------------------------------
(* Claims about the ChaCha20-labelled pair, checked under SpecCha *)

\* the key bytes a password stands for
ChaKey(password) == TextEncoderEncode(PadEnd(password, 32))

\* C30: for every text and passwords P, P2 of at most 32 bytes with
\* P2 # P, decryptChaCha20 with P2 of what encryptChaCha20 returned under P
\* fails, and the two passwords do not give the same key.
C30_WrongPasswordRejected ==
    (/\ chaPc = "done"
     /\ Utf8Length(chaPassword) <= 32
     /\ Utf8Length(chaPassword2) <= 32
     /\ chaPassword2 # chaPassword)
        => /\ ~chaBack.ok
           /\ ChaKey(chaPassword2) # ChaKey(chaPassword)


=============================================================================
